---- MODULE Spec2Model ----
(***************************************************************************)
(* A state-machine model of the rust-tui-daw audio engine: the two melodic *)
(* voice banks with their step sequencers (synth.rs, sequencer.rs), the    *)
(* drum machine (drums.rs) and the part of the control surface that        *)
(* mutates them (app.rs).                                                  *)
(*                                                                         *)
(* Numbers.  The engine computes in f32.  The model computes in integers:  *)
(*   - bpm is a whole number of beats per minute;                          *)
(*   - swing, volumes and the sustain level are whole percents;            *)
(*   - the envelope times are whole milliseconds;                          *)
(*   - f32::round (half away from zero) of a non-negative quotient a/b is  *)
(*     (2a + b) \div 2b;                                                   *)
(*   - the envelope of a Voice is computed in IEEE-754 binary32 itself     *)
(*     (section "binary32 arithmetic"): its length in samples depends on   *)
(*     how each subtraction rounds.                                        *)
(* The oscillator phase, the frequency and the audio sample values are not *)
(* part of the model: no modelled decision reads them.                     *)
(*                                                                         *)
(* An Option<T> is a sequence of length at most one: << >> is None and     *)
(* <<x>> is Some(x).  Vec indices are 0-based in the source and the model  *)
(* keeps them 0-based (At, SetAt below).                                   *)
(***************************************************************************)
EXTENDS Integers, Sequences, FiniteSets, TLC

None == << >>
Some(x) == <<x>>
IsSome(o) == Len(o) = 1
Unwrap(o) == o[1]

\* v[i] with a 0-based index, and slice::get(i)
At(v, i) == v[i + 1]
InRange(v, i) == i >= 0 /\ i < Len(v)
SetAt(v, i, x) == [v EXCEPT ![i + 1] = x]

\* Vec::resize(n, fill)
Resize(v, n, fill) ==
  [i \in 1..n |-> IF i <= Len(v) THEN v[i] ELSE fill]

Min(a, b) == IF a < b THEN a ELSE b
Max(a, b) == IF a > b THEN a ELSE b
Clamp(x, lo, hi) == IF x < lo THEN lo ELSE IF x > hi THEN hi ELSE x

\* f32::round of the non-negative quotient a / b
RoundDiv(a, b) == (2 * a + b) \div (2 * b)
\* f32::ceil of the non-negative quotient a / b
CeilDiv(a, b) == (a + b - 1) \div b

----------------------------------------------------------------------------
(* Bounds of the model *)

\* the sample rate of the scaled-down engine the behaviours are explored on
SampleRate == 16
\* the master clock stops being advanced here
MaxClock == 8
\* the release behaviours at 44100 Hz: keys are played during the first
\* HoldSamples samples and the clock runs on to ReleaseHorizon
HoldSamples == 1
\* the number of operations applied to a Voice on its own
MaxVoiceCalls == 6
\* the largest k euclidean_fill is called with
MaxFill == 33
\* the number of operations of a behaviour of the effects page
MaxFxCalls == 5
\* the number of cursor moves and edits of a behaviour of the drum page
MaxEdits == 3
\* the number of audio callbacks of a behaviour that interleaves them with
\* loads, step-count cycling and the transports
MaxCallbacks == 3
\* the number of operations of a behaviour of the drum machine on its own
MaxHits == 4
\* the largest drum pool live triggers are added to
MaxPool == 2
ReleaseHorizon == 13240

(* Program constants *)

\* Synth::new(44100.0)
RealSampleRate == 44100
\* attack 0.01 s, decay 0.1 s, sustain 0.7, release 0.3 s
AttackMs == 10
DecayMs == 100
SustainPct == 70
ReleaseMs == 300
\* bpm range of bpm_up / bpm_down / load
MinBpm == 30
MaxBpm == 300
InitBpm == 120
\* largest step count load accepts, and the largest swing (percent)
MaxSteps == 32
MaxSwing == 50

Banks == {1, 2}

----------------------------------------------------------------------------
(* binary32 arithmetic.  A non-negative f32 is the pair <<m, e>> standing   *)
(* for m * 2^e with 2^23 <= m < 2^24, or <<0, 0>> for 0.0.  Every operation *)
(* rounds to nearest, ties to even, as the hardware does.                   *)

RECURSIVE BitLen(_)
BitLen(n) == IF n = 0 THEN 0 ELSE 1 + BitLen(n \div 2)

F32Zero == <<0, 0>>

\* n * 2^e, plus (when sticky) a positive amount below 2^e, rounded to 24 bits
RoundF32(n, e, sticky) ==
  LET len == BitLen(n)
  IN IF n = 0 THEN F32Zero
     ELSE IF len <= 24 THEN <<n * 2^(24 - len), e - (24 - len)>>
     ELSE LET k == len - 24
              q == n \div 2^k
              rem == n % 2^k
              half == 2^(k - 1)
              up == rem > half \/ (rem = half /\ (sticky \/ q % 2 = 1))
              m == IF up THEN q + 1 ELSE q
          IN IF m = 2^24 THEN <<2^23, e + k + 1>> ELSE <<m, e + k>>

\* n as f32, for 0 <= n < 2^24
F32FromInt(n) == RoundF32(n, 0, FALSE)
F32One == F32FromInt(1)

\* x < y and x <= y
F32Less(x, y) ==
  IF y[1] = 0 THEN FALSE
  ELSE IF x[1] = 0 THEN TRUE
  ELSE x[2] < y[2] \/ (x[2] = y[2] /\ x[1] < y[1])
F32LessEq(x, y) == x = y \/ F32Less(x, y)

\* m \div 2^s and whether a set bit was shifted out
ShiftRight(m, s) ==
  IF s >= 24 THEN <<0, m # 0>> ELSE <<m \div 2^s, m % 2^s # 0>>

\* x + y
F32Add(x, y) ==
  IF x[1] = 0 THEN y ELSE IF y[1] = 0 THEN x
  ELSE LET a == IF x[2] >= y[2] THEN x ELSE y
           b == IF x[2] >= y[2] THEN y ELSE x
           s == a[2] - b[2]
           g == Min(s, 5)
           d == ShiftRight(b[1], s - g)
       IN RoundF32(a[1] * 2^g + d[1], a[2] - g, d[2])

\* x - y where the envelope only asks whether the result is positive: a result
\* that is zero or negative is reported as 0.0
F32Sub(x, y) ==
  IF y[1] = 0 THEN x
  ELSE IF F32LessEq(x, y) THEN F32Zero
  ELSE LET s == x[2] - y[2]
           g == Min(s, 6)
           d == ShiftRight(y[1], s - g)
           dd == IF d[2] THEN d[1] + 1 ELSE d[1]
       IN RoundF32(x[1] * 2^g - dd, x[2] - g, d[2])

\* x * y, by 12-bit limbs
F32Mul(x, y) ==
  IF x[1] = 0 \/ y[1] = 0 THEN F32Zero
  ELSE LET a1 == x[1] \div 4096  a0 == x[1] % 4096
           b1 == y[1] \div 4096  b0 == y[1] % 4096
           lo == a0 * b0
           mid == a1 * b0 + a0 * b1 + (lo \div 4096)
           hi == a1 * b1 + (mid \div 4096)
           mid12 == mid % 4096
           lo12 == lo % 4096
       IN RoundF32(hi * 64 + (mid12 \div 64), x[2] + y[2] + 18,
                   mid12 % 64 # 0 \/ lo12 # 0)

\* x / y for y > 0, by long division in base 128
F32Div(x, y) ==
  IF x[1] = 0 THEN F32Zero
  ELSE LET q0 == x[1] \div y[1]  r0 == x[1] % y[1]
           q1 == (r0 * 128) \div y[1]  r1 == (r0 * 128) % y[1]
           q2 == (r1 * 128) \div y[1]  r2 == (r1 * 128) % y[1]
           q3 == (r2 * 128) \div y[1]  r3 == (r2 * 128) % y[1]
           q4 == (r3 * 128) \div y[1]  r4 == (r3 * 128) % y[1]
       IN RoundF32(q0 * 2^28 + q1 * 2^21 + q2 * 2^14 + q3 * 2^7 + q4,
                   x[2] - y[2] - 28, r4 # 0)

\* the f32 literal a / b (the nearest f32 to the decimal)
F32Lit(a, b) == F32Div(F32FromInt(a), F32FromInt(b))

----------------------------------------------------------------------------
(* Sequencer (sequencer.rs) *)

SeqWrongSps(sr, bpm) == (sr * 60) \div (bpm * 4)
\* Sequencer::samples_per_step: ((sample_rate * 60.0) / (bpm * 4.0)).round()
samples_per_step(sr, bpm) == RoundDiv(sr * 60, bpm * 4)

\* Sequencer::new
NewSequencer ==
  [steps |-> [i \in 1..16 |-> None], num_steps |-> 16,
   current_step |-> 0, playing |-> FALSE]

PrevNoWrap(step_idx, n) == IF step_idx = 0 THEN 0 ELSE step_idx - 1
\* the index tick releases: the step before step_idx, cyclically
PrevStep(step_idx, n) == IF step_idx = 0 THEN n - 1 ELSE step_idx - 1

TickStaleOff(sq, sr, bpm, clock) ==
  IF ~sq.playing THEN <<sq, None>>
  ELSE
    LET sps == Max(samples_per_step(sr, bpm), 1)
        step_idx == (clock \div sps) % sq.num_steps
        sq2 == [sq EXCEPT !.current_step = step_idx]
    IN IF clock % sps = 0
       THEN <<sq2, Some([note_off |-> IF InRange(sq.steps, sq.current_step)
                                      THEN At(sq.steps, sq.current_step) ELSE None,
                         note_on  |-> At(sq.steps, step_idx)])>>
       ELSE <<sq2, None>>
\* a tick that counts the steps itself rather than reading them off the clock
TickCountsSteps(sq, sr, bpm, clock) ==
  IF ~sq.playing THEN <<sq, None>>
  ELSE
    LET sps == Max(samples_per_step(sr, bpm), 1)
        step_idx == IF clock = 0 THEN 0
                    ELSE IF clock % sps = 0 THEN (sq.current_step + 1) % sq.num_steps
                    ELSE sq.current_step
        sq2 == [sq EXCEPT !.current_step = step_idx]
    IN IF clock % sps = 0
       THEN <<sq2, Some([note_off |-> At(sq.steps, PrevStep(step_idx, sq.num_steps)),
                         note_on  |-> At(sq.steps, step_idx)])>>
       ELSE <<sq2, None>>
\* Sequencer::tick: the pair <<sequencer after the call, returned Option<StepEvent>>>
tick(sq, sr, bpm, clock) ==
  IF ~sq.playing THEN <<sq, None>>
  ELSE
    LET sps == Max(samples_per_step(sr, bpm), 1)
        step_idx == (clock \div sps) % sq.num_steps
        phase_in == clock % sps
        sq2 == [sq EXCEPT !.current_step = step_idx]
    IN IF phase_in = 0
       THEN <<sq2, Some([note_off |-> At(sq.steps, PrevStep(step_idx, sq.num_steps)),
                         note_on  |-> At(sq.steps, step_idx)])>>
       ELSE <<sq2, None>>

\* a toggle_play that returns no note when it pauses
PauseKeepsNote(sq) == <<[sq EXCEPT !.playing = ~sq.playing], None>>
TogglePlayAlwaysReturns(sq) ==
  <<[sq EXCEPT !.playing = ~sq.playing],
    IF InRange(sq.steps, sq.current_step) THEN At(sq.steps, sq.current_step) ELSE None>>
\* Sequencer::toggle_play: <<sequencer after the call, returned Option<u8>>>
seq_toggle_play(sq) ==
  LET sq2 == [sq EXCEPT !.playing = ~sq.playing]
  IN IF sq2.playing THEN <<sq2, None>>
     ELSE <<sq2, IF InRange(sq.steps, sq.current_step)
                 THEN At(sq.steps, sq.current_step) ELSE None>>

NextNumSteps(n) == IF n = 8 THEN 16 ELSE IF n = 16 THEN 24 ELSE IF n = 24 THEN 32 ELSE 8

\* Sequencer::cycle_num_steps
seq_cycle_num_steps(sq) ==
  LET next == NextNumSteps(sq.num_steps)
  IN [sq EXCEPT !.num_steps = next,
                !.steps = Resize(sq.steps, next, None),
                !.current_step = IF sq.current_step >= next THEN 0 ELSE sq.current_step]

\* Sequencer::set_step / clear_step
seq_set_step(sq, step, note) ==
  IF step < Len(sq.steps) THEN [sq EXCEPT !.steps = SetAt(sq.steps, step, Some(note))] ELSE sq
seq_clear_step(sq, step) ==
  IF step < Len(sq.steps) THEN [sq EXCEPT !.steps = SetAt(sq.steps, step, None)] ELSE sq

----------------------------------------------------------------------------
(* Voice (synth.rs) *)

\* EnvelopeStage, in the order of the enum
Stages == <<"Attack", "Decay", "Sustain", "Release", "Off">>
Rank(stage) == CHOOSE i \in 1..5 : Stages[i] = stage

\* Synth::attack, decay, sustain, release (the f32 literals of Synth::new)
attack == F32Lit(AttackMs, 1000)
decay == F32Lit(DecayMs, 1000)
sustain == F32Lit(SustainPct, 100)
release_time == F32Lit(ReleaseMs, 1000)

\* Voice::new(note).  A bank is a HashMap<u8, Voice>; the model keeps each entry
\* as one record, the key in field note.  since_release counts the next_sample
\* calls since the last release() (a history field, read by no operation).
NewVoice(note) ==
  [note |-> note, stage |-> "Attack", level |-> F32Zero, release_level |-> F32Zero,
   since_release |-> 0]

ReleaseAlways(v) ==
  [v EXCEPT !.release_level = v.level, !.stage = "Release", !.since_release = 0]
\* Voice::release
release(v) ==
  IF v.stage # "Off"
  THEN [v EXCEPT !.release_level = v.level, !.stage = "Release", !.since_release = 0]
  ELSE v

\* Voice::is_finished
is_finished(v) == v.stage = "Off"

\* Voice::next_sample: the envelope part
next_sample(v, sr) ==
  LET dt == F32Div(F32One, F32FromInt(sr))
  IN CASE v.stage = "Attack" ->
            LET l == F32Add(v.level, F32Div(dt, attack))
            IN IF F32LessEq(F32One, l) THEN [v EXCEPT !.level = F32One, !.stage = "Decay"]
               ELSE [v EXCEPT !.level = l]
       [] v.stage = "Decay" ->
            LET l == F32Sub(v.level,
                            F32Div(F32Mul(dt, F32Sub(F32One, sustain)), decay))
            IN IF F32LessEq(l, sustain) THEN [v EXCEPT !.level = sustain, !.stage = "Sustain"]
               ELSE [v EXCEPT !.level = l]
       [] v.stage = "Sustain" -> [v EXCEPT !.level = sustain]
       [] v.stage = "Release" ->
            LET l == F32Sub(v.level, F32Div(F32Mul(dt, v.release_level), release_time))
            IN IF F32LessEq(l, F32Zero)
               THEN [v EXCEPT !.level = F32Zero, !.stage = "Off",
                              !.since_release = v.since_release + 1]
               ELSE [v EXCEPT !.level = l, !.since_release = v.since_release + 1]
       [] v.stage = "Off" -> v

InsertKeepOld(bank, note) == bank \cup {NewVoice(note)}
\* HashMap::insert(note, Voice::new(note)): the entry for the key is replaced
bank_insert(bank, note) == {v \in bank : v.note # note} \cup {NewVoice(note)}

ReleaseOrInsert(bank, note) ==
  IF \E v \in bank : v.note = note
  THEN {IF v.note = note THEN release(v) ELSE v : v \in bank}
  ELSE bank \cup {release(NewVoice(note))}
\* if let Some(v) = voices.get_mut(&note) { v.release(); }
bank_release(bank, note) == {IF v.note = note THEN release(v) ELSE v : v \in bank}

RetainAll(bank) == bank
\* the render loop of one bank: every voice's next_sample, then retain(!is_finished)
bank_rendered(bank, sr) == {next_sample(v, sr) : v \in bank}
bank_retained(bank) == {v \in bank : ~is_finished(v)}

\* the events of a step applied note-on first
ApplyOnThenOff(bank, ev) ==
  IF ~IsSome(ev) THEN bank
  ELSE LET e == Unwrap(ev)
           b1 == IF IsSome(e.note_on) THEN bank_insert(bank, Unwrap(e.note_on)) ELSE bank
       IN IF IsSome(e.note_off) THEN bank_release(b1, Unwrap(e.note_off)) ELSE b1
\* the sequencer block of Synth::generate_sample: note-off, then note-on
apply_event(bank, ev) ==
  IF ~IsSome(ev) THEN bank
  ELSE LET e == Unwrap(ev)
           b1 == IF IsSome(e.note_off) THEN bank_release(bank, Unwrap(e.note_off)) ELSE bank
       IN IF IsSome(e.note_on) THEN bank_insert(b1, Unwrap(e.note_on)) ELSE b1

----------------------------------------------------------------------------
(* 32-bit unsigned arithmetic.  A u32 is the pair <<high 16 bits, low 16 bits>>. *)

Half == 2^16

RECURSIVE XorBits(_, _, _)
XorBits(a, b, n) ==
  IF n = 0 THEN 0
  ELSE (((a % 2) + (b % 2)) % 2) + 2 * XorBits(a \div 2, b \div 2, n - 1)

Xor32(x, y) == <<XorBits(x[1], y[1], 16), XorBits(x[2], y[2], 16)>>
\* x << k for 0 < k < 16, and x >> k for 16 <= k < 32
Shl32(x, k) == <<(x[1] * 2^k + x[2] \div 2^(16 - k)) % Half, (x[2] * 2^k) % Half>>
Shr32(x, k) == <<0, x[1] \div 2^(k - 16)>>

\* the three xorshift steps of drums.rs (xorshift and the probability roll)
xorshift(state) ==
  LET a == Xor32(state, Shl32(state, 13))
      b == Xor32(a, Shr32(a, 17))
  IN Xor32(b, Shl32(b, 5))

\* seed.wrapping_mul(1_664_525).wrapping_add(1_013_904_223)
\* 1664525 = 25 * 65536 + 26125 and 1013904223 = 15470 * 65536 + 62303
next_seed(s) ==
  LET p  == s[2] * 26125
      lo == (p % Half) + 62303
      hi == (p \div Half) + s[1] * 26125 + s[2] * 25 + 15470 + (lo \div Half)
  IN <<hi % Half, lo % Half>>

\* x % 100
Mod100(x) == ((x[1] % 100) * (Half % 100) + x[2]) % 100

\* seed | 1
OrOne(s) == <<s[1], s[2] + (1 - (s[2] % 2))>>

----------------------------------------------------------------------------
(* Drum machine (drums.rs) *)

\* DrumKind::ALL
DrumKinds ==
  <<"Kick", "Snare", "ClosedHat", "OpenHat", "Clap", "LowTom", "MidTom", "HighTom">>

\* DrumKind::duration, in milliseconds
DurationMs(kind) ==
  CASE kind = "Kick" -> 500 [] kind = "Snare" -> 200 [] kind = "ClosedHat" -> 60
    [] kind = "OpenHat" -> 380 [] kind = "Clap" -> 220 [] kind = "LowTom" -> 620
    [] kind = "MidTom" -> 420 [] kind = "HighTom" -> 300

\* f32::ceil as u64
F32Ceil(x) ==
  IF x[2] >= 0 THEN x[1] * 2^x[2]
  ELSE IF x[2] <= -24 THEN (IF x[1] = 0 THEN 0 ELSE 1)
  ELSE (x[1] + 2^(-x[2]) - 1) \div 2^(-x[2])

DurSamplesExact(kind, sr) == CeilDiv(DurationMs(kind) * sr, 1000)
\* (kind.duration() * sample_rate).ceil() as u64: the f32 nearest to the
\* duration times the sample rate, rounded to f32, then raised to an integer
dur_samples(kind, sr) ==
  F32Ceil(F32Mul(F32Lit(DurationMs(kind), 1000), F32FromInt(sr)))

\* DrumVoice::new
NewDrumVoice(kind, sr, seed, volume) ==
  [kind |-> kind, sample_pos |-> 0,
   dur_samples |-> dur_samples(kind, sr),
   noise |-> OrOne(seed), volume |-> volume, sample_rate |-> sr]

\* DrumVoice::is_finished
dv_is_finished(v) == v.sample_pos >= v.dur_samples

\* DrumVoice::next_sample: the kick reads noise only while t < 0.004, every other
\* kind reads it once per sample
dv_next_sample(v) ==
  IF dv_is_finished(v) THEN v
  ELSE LET reads == v.kind # "Kick" \/ v.sample_pos * 1000 < 4 * v.sample_rate
       IN [v EXCEPT !.noise = IF reads THEN xorshift(v.noise) ELSE v.noise,
                    !.sample_pos = v.sample_pos + 1]

\* DrumTrack::new
NewDrumTrack(kind, n) ==
  [kind |-> kind, steps |-> [i \in 1..n |-> 0], muted |-> FALSE, volume |-> 85]

\* DrumMachine::new; seed = 0xBEEF_CAFE, prob_seed = 0xDEAD_BEEF
NewDrumMachine ==
  [tracks |-> [i \in 1..8 |-> NewDrumTrack(DrumKinds[i], 16)],
   num_steps |-> 16, current_step |-> 0, playing |-> FALSE, swing |-> 0,
   voices |-> << >>, seed |-> <<48879, 51966>>, prob_seed |-> <<57005, 48879>>,
   kick_triggered |-> FALSE]

\* t.steps.get(current_step).copied().unwrap_or(0)
StepProb(track, step) == IF InRange(track.steps, step) THEN At(track.steps, step) ELSE 0

FireTrackAlwaysRolls(dm, track, sr) ==
  LET prob == StepProb(track, dm.current_step)
      rolled == xorshift(dm.prob_seed)
      seed2 == next_seed(dm.seed)
  IN IF track.muted \/ prob = 0 THEN dm
     ELSE IF prob < 100 /\ Mod100(rolled) >= prob THEN [dm EXCEPT !.prob_seed = rolled]
     ELSE [dm EXCEPT !.prob_seed = rolled,
                     !.seed = seed2,
                     !.kick_triggered = (track.kind = "Kick") \/ dm.kick_triggered,
                     !.voices = Append(dm.voices,
                                       NewDrumVoice(track.kind, sr, seed2, track.volume))]
\* the body of fire_step's loop for one track
fire_track(dm, track, sr) ==
  LET prob == StepProb(track, dm.current_step)
      rolled == xorshift(dm.prob_seed)
      dm1 == IF prob < 100 THEN [dm EXCEPT !.prob_seed = rolled] ELSE dm
      seed2 == next_seed(dm.seed)
  IN IF track.muted \/ prob = 0 THEN dm
     ELSE IF prob < 100 /\ Mod100(rolled) >= prob THEN dm1
     ELSE [dm1 EXCEPT !.seed = seed2,
                      !.kick_triggered = (track.kind = "Kick") \/ dm.kick_triggered,
                      !.voices = Append(dm.voices,
                                        NewDrumVoice(track.kind, sr, seed2, track.volume))]

RECURSIVE fire_tracks(_, _, _)
fire_tracks(dm, i, sr) ==
  IF i > Len(dm.tracks) THEN dm
  ELSE fire_tracks(fire_track(dm, dm.tracks[i], sr), i + 1, sr)

NotOpenHat(v) == v.kind # "OpenHat"

FireStepChokesLate(dm, sr) ==
  LET closed_fires ==
        \E i \in 1..Len(dm.tracks) :
          /\ dm.tracks[i].kind = "ClosedHat"
          /\ ~dm.tracks[i].muted
          /\ StepProb(dm.tracks[i], dm.current_step) > 0
      dm1 == fire_tracks(dm, 1, sr)
  IN IF closed_fires
     THEN [dm1 EXCEPT !.voices = SelectSeq(dm1.voices, NotOpenHat)]
     ELSE dm1
\* DrumMachine::fire_step
fire_step(dm, sr) ==
  LET closed_fires ==
        \E i \in 1..Len(dm.tracks) :
          /\ dm.tracks[i].kind = "ClosedHat"
          /\ ~dm.tracks[i].muted
          /\ StepProb(dm.tracks[i], dm.current_step) > 0
      dm1 == IF closed_fires
             THEN [dm EXCEPT !.voices = SelectSeq(dm.voices, NotOpenHat)]
             ELSE dm
  IN fire_tracks(dm1, 1, sr)

dm_samples_per_step(sr, bpm) == RoundDiv(sr * 60, bpm * 4)

\* (self.swing * sps as f32).round() on odd steps, 0 on even steps
swing_offset(step_idx, swing, sps) ==
  IF step_idx % 2 = 1 THEN RoundDiv(swing * sps, 100) ELSE 0

\* whether DrumMachine::generate_sample calls fire_step at this clock
dm_fires(dm, sr, bpm, clock) ==
  LET sps == Max(dm_samples_per_step(sr, bpm), 1)
      step_idx == (clock \div sps) % dm.num_steps
  IN dm.playing /\ clock % sps = swing_offset(step_idx, dm.swing, sps)

DvAlive(v) == ~dv_is_finished(v)

\* DrumMachine::generate_sample (the state it leaves; the returned sample is not modelled)
dm_generate_sample(dm, sr, bpm, clock) ==
  LET sps == Max(dm_samples_per_step(sr, bpm), 1)
      step_idx == (clock \div sps) % dm.num_steps
      dm1 == [dm EXCEPT !.current_step = step_idx]
      dm2 == IF dm_fires(dm, sr, bpm, clock) THEN fire_step(dm1, sr) ELSE dm1
      played == [i \in 1..Len(dm2.voices) |-> dv_next_sample(dm2.voices[i])]
  IN [dm2 EXCEPT !.voices = SelectSeq(played, DvAlive)]

\* a trigger_now that draws from the probability stream
TriggerNowRolls(dm, track_idx, sr) ==
  IF ~InRange(dm.tracks, track_idx) \/ At(dm.tracks, track_idx).muted THEN dm
  ELSE LET track == At(dm.tracks, track_idx)
           seed2 == next_seed(dm.seed)
       IN [dm EXCEPT !.seed = seed2, !.prob_seed = xorshift(dm.prob_seed),
                     !.voices = Append(IF track.kind = "ClosedHat"
                                       THEN SelectSeq(dm.voices, NotOpenHat) ELSE dm.voices,
                                       NewDrumVoice(track.kind, sr, seed2, track.volume))]
\* DrumMachine::trigger_now
trigger_now(dm, track_idx, sr) ==
  IF ~InRange(dm.tracks, track_idx) THEN dm
  ELSE LET track == At(dm.tracks, track_idx)
           kept == IF track.kind = "ClosedHat"
                   THEN SelectSeq(dm.voices, NotOpenHat) ELSE dm.voices
           seed2 == next_seed(dm.seed)
       IN IF track.muted THEN dm
          ELSE [dm EXCEPT !.seed = seed2,
                          !.voices = Append(kept, NewDrumVoice(track.kind, sr, seed2,
                                                               track.volume))]

TogglePlayKeepsVoices(dm) == [dm EXCEPT !.playing = ~dm.playing]
\* DrumMachine::toggle_play
dm_toggle_play(dm) ==
  [dm EXCEPT !.playing = ~dm.playing,
             !.voices = IF dm.playing THEN << >> ELSE dm.voices]

\* DrumMachine::toggle_step
dm_toggle_step(dm, track, step) ==
  IF InRange(dm.tracks, track) /\ InRange(At(dm.tracks, track).steps, step)
  THEN [dm EXCEPT !.tracks[track + 1].steps[step + 1] = IF @ = 0 THEN 100 ELSE 0]
  ELSE dm

\* DrumMachine::clear_step
dm_clear_step(dm, track, step) ==
  IF InRange(dm.tracks, track) /\ InRange(At(dm.tracks, track).steps, step)
  THEN [dm EXCEPT !.tracks[track + 1].steps[step + 1] = 0]
  ELSE dm

\* DrumMachine::step_prob_up; *s + 25 is a u8 sum: when it does not fit the
\* build with overflow checks panics and the build without stores it mod 2^8
prob_up_overflows(dm, track, step) ==
  /\ InRange(dm.tracks, track) /\ InRange(At(dm.tracks, track).steps, step)
  /\ At(At(dm.tracks, track).steps, step) + 25 > 255
step_prob_up(dm, track, step) ==
  IF InRange(dm.tracks, track) /\ InRange(At(dm.tracks, track).steps, step)
  THEN [dm EXCEPT !.tracks[track + 1].steps[step + 1] =
          LET v == Min((@ + 25) % 256, 100) IN IF v = 0 THEN 25 ELSE v]
  ELSE dm

\* DrumMachine::step_prob_down
step_prob_down(dm, track, step) ==
  IF InRange(dm.tracks, track) /\ InRange(At(dm.tracks, track).steps, step)
  THEN [dm EXCEPT !.tracks[track + 1].steps[step + 1] = IF @ <= 25 THEN 0 ELSE @ - 25]
  ELSE dm

\* DrumMachine::track_volume_up / track_volume_down, in percent
track_volume_up(dm, track) ==
  IF InRange(dm.tracks, track)
  THEN [dm EXCEPT !.tracks[track + 1].volume = Min(@ + 5, 100)]
  ELSE dm
track_volume_down(dm, track) ==
  IF InRange(dm.tracks, track)
  THEN [dm EXCEPT !.tracks[track + 1].volume = Max(@ - 5, 0)]
  ELSE dm

\* DrumMachine::toggle_mute
dm_toggle_mute(dm, track) ==
  IF InRange(dm.tracks, track)
  THEN [dm EXCEPT !.tracks[track + 1].muted = ~@]
  ELSE dm

\* DrumMachine::cycle_num_steps
dm_cycle_num_steps(dm) ==
  LET next == NextNumSteps(dm.num_steps)
  IN [dm EXCEPT !.num_steps = next,
                !.tracks = [i \in 1..Len(dm.tracks) |->
                              [dm.tracks[i] EXCEPT !.steps = Resize(@, next, 0)]],
                !.current_step = IF dm.current_step >= next THEN 0 ELSE dm.current_step]

\* the loop of euclidean_fill from index i on, with the bucket as it stands
RECURSIVE euclid_loop(_, _, _, _, _)
euclid_loop(steps, n, k, i, bucket) ==
  IF i >= n THEN steps
  ELSE LET b == bucket + k
       IN IF b >= n THEN euclid_loop(SetAt(steps, i, 100), n, k, i + 1, b - n)
          ELSE euclid_loop(steps, n, k, i + 1, b)

EuclidStrict(n, k0) ==
  LET k == Min(k0, n)
      RECURSIVE loop(_, _, _)
      loop(steps, i, bucket) ==
        IF i >= n THEN steps
        ELSE LET b == bucket + k
             IN IF b > n THEN loop(SetAt(steps, i, 100), i + 1, b - n)
                ELSE loop(steps, i + 1, b)
  IN loop([i \in 1..n |-> 0], 0, 0)
\* the pattern euclidean_fill writes: k0 hits over n steps
euclid_pattern(n, k0) == euclid_loop([i \in 1..n |-> 0], n, Min(k0, n), 0, 0)

\* DrumMachine::euclidean_fill
euclidean_fill(dm, track, k) ==
  IF InRange(dm.tracks, track)
  THEN [dm EXCEPT !.tracks[track + 1].steps = euclid_pattern(dm.num_steps, k)]
  ELSE dm

----------------------------------------------------------------------------
(* Effects (effects.rs).  Audio samples and effect parameters are fixed-point *)
(* numbers in thousandths (1000 is 1.0), the delay time is in milliseconds    *)
(* and the filter cutoff in Hz.  tanh, sin and cos are computed by rational   *)
(* approximations; they are used on the enabled paths only.  A Vec<f32>       *)
(* buffer is kept as its length and the entries that are not zero.            *)

Unit == 10^3
Mul(a, b) == (a * b) \div Unit

\* vec![0.0; n], buf[i] and buf[i] = x
NewBuf(n) == [len |-> n, data |-> << >>]
BufGet(buf, i) == IF i \in DOMAIN buf.data THEN buf.data[i] ELSE 0
BufPut(buf, i, x) ==
  LET others == [j \in (DOMAIN buf.data) \ {i} |-> buf.data[j]]
  IN [buf EXCEPT !.data = IF x = 0 THEN others ELSE (i :> x) @@ others]

\* f32::tanh, by x (27 + x^2) / (27 + 9 x^2) up to 3.0
Tanh(x) ==
  IF x > 3 * Unit THEN Unit ELSE IF x < -3 * Unit THEN -Unit
  ELSE (x * (27 * Unit + Mul(x, x))) \div (27 * Unit + 9 * Mul(x, x))

\* f32::sin and f32::cos on [0, pi], by 16 x (pi - x) / (5 pi^2 - 4 x (pi - x))
Pi == 3142
Sin(x) ==
  LET p == Mul(x, Pi - x)
  IN (16 * p * Unit) \div (5 * Mul(Pi, Pi) - 4 * p)
Cos(x) == IF 2 * x <= Pi THEN Sin(x + Pi \div 2) ELSE -Sin(x - Pi \div 2)

\* CombFilter::new and CombFilter::process: <<filter after the call, output>>
NewComb(size) ==
  [buf |-> NewBuf(size), pos |-> 0, feedback |-> 840, damp_store |-> 0,
   damp1 |-> 200, damp2 |-> 800]
comb_process(c, input) ==
  LET output == BufGet(c.buf, c.pos)
      store == Mul(output, c.damp2) + Mul(c.damp_store, c.damp1)
  IN <<[c EXCEPT !.damp_store = store,
                 !.buf = BufPut(c.buf, c.pos, input + Mul(store, c.feedback)),
                 !.pos = (c.pos + 1) % c.buf.len],
       output>>

\* AllpassFilter::new and AllpassFilter::process
NewAllpass(size) == [buf |-> NewBuf(size), pos |-> 0]
allpass_process(ap, input) ==
  LET bufout == BufGet(ap.buf, ap.pos)
  IN <<[ap EXCEPT !.buf = BufPut(ap.buf, ap.pos, input + Mul(bufout, 500)),
                  !.pos = (ap.pos + 1) % ap.buf.len],
       bufout - input>>

\* Reverb::new: set_feedback(room_size * 0.28 + 0.7) and set_damp(damping * 0.4)
comb_tuned(c, room_size, damping) ==
  [c EXCEPT !.feedback = Mul(room_size, 280) + 700,
            !.damp1 = Mul(damping, 400), !.damp2 = Unit - Mul(damping, 400)]
CombSizes == <<1116, 1188, 1277, 1356, 1422, 1491, 1557, 1617>>
AllpassSizes == <<556, 441, 341, 225>>
NewReverb ==
  [enabled |-> FALSE, room_size |-> 500, damping |-> 500, mix |-> 300,
   combs |-> [i \in 1..8 |-> comb_tuned(NewComb(CombSizes[i]), 500, 500)],
   allpasses |-> [i \in 1..4 |-> NewAllpass(AllpassSizes[i])]]

\* the allpass loop of Reverb::process from filter i on: <<allpasses, wet>>
RECURSIVE allpass_chain(_, _, _)
allpass_chain(aps, i, wet) ==
  IF i > Len(aps) THEN <<aps, wet>>
  ELSE LET r == allpass_process(aps[i], wet)
       IN allpass_chain([aps EXCEPT ![i] = r[1]], i + 1, r[2])

RECURSIVE SumSeq(_, _)
SumSeq(s, i) == IF i > Len(s) THEN 0 ELSE s[i] + SumSeq(s, i + 1)

\* Reverb::process: <<reverb after the call, returned sample>>
reverb_process(r, sample) ==
  IF ~r.enabled THEN <<r, 0>>
  ELSE LET input == Mul(sample, 15)
           done == [i \in 1..8 |->
                      comb_process(comb_tuned(r.combs[i], r.room_size, r.damping), input)]
           aps == allpass_chain(r.allpasses, 1, SumSeq([i \in 1..8 |-> done[i][2]], 1))
       IN <<[r EXCEPT !.combs = [i \in 1..8 |-> done[i][1]], !.allpasses = aps[1]],
            Mul(Mul(aps[2], r.mix), 3 * Unit)>>


\* a Delay that keeps recording while it is switched off
DelayRecordsWhenOff(d, sample) ==
  LET delay_samp == Clamp((d.time_ms * d.sample_rate) \div 1000, 1, d.buf.len - 1)
      read == (d.write + d.buf.len - delay_samp) % d.buf.len
      delayed == BufGet(d.buf, read)
  IN <<[d EXCEPT !.buf = BufPut(d.buf, d.write, sample + Mul(delayed, d.feedback)),
                 !.write = (d.write + 1) % d.buf.len],
       IF d.enabled THEN Mul(delayed, d.mix) ELSE 0>>
\* Delay::new and Delay::process; buf has sample_rate entries
NewDelay(sr) ==
  [enabled |-> FALSE, time_ms |-> 250, feedback |-> 400, mix |-> 300,
   buf |-> NewBuf(sr), write |-> 0, sample_rate |-> sr]
delay_process(d, sample) ==
  IF ~d.enabled THEN <<d, 0>>
  ELSE LET delay_samp == Clamp((d.time_ms * d.sample_rate) \div 1000, 1, d.buf.len - 1)
           read == (d.write + d.buf.len - delay_samp) % d.buf.len
           delayed == BufGet(d.buf, read)
       IN <<[d EXCEPT !.buf = BufPut(d.buf, d.write, sample + Mul(delayed, d.feedback)),
                      !.write = (d.write + 1) % d.buf.len],
            Mul(delayed, d.mix)>>

\* Distortion::new and Distortion::process
NewDistortion == [enabled |-> FALSE, drive |-> 3 * Unit, tone |-> 300, level |-> 700]
DistortionAlwaysOn(d, sample) ==
  LET driven == Mul(sample, d.drive)
  IN <<d, Mul(Mul(Tanh(driven), Unit - d.tone) + Mul(Clamp(driven, -Unit, Unit), d.tone),
              d.level)>>
distortion_process(d, sample) ==
  IF ~d.enabled THEN <<d, 0>>
  ELSE LET driven == Mul(sample, d.drive)
           soft == Tanh(driven)
           hard == Clamp(driven, -Unit, Unit)
       IN <<d, Mul(Mul(soft, Unit - d.tone) + Mul(hard, d.tone), d.level)>>

\* FilterMode::next and FilterMode::prev
FilterModes == <<"LowPass", "HighPass", "BandPass">>
mode_next(m) ==
  IF m = "LowPass" THEN "HighPass" ELSE IF m = "HighPass" THEN "BandPass" ELSE "LowPass"
mode_prev(m) ==
  IF m = "LowPass" THEN "BandPass" ELSE IF m = "HighPass" THEN "LowPass" ELSE "HighPass"

\* BiquadFilter::recompute
recompute(f) ==
  LET w0 == Mul(2 * Pi, Min(f.cutoff * Unit, f.sample_rate * 499) \div f.sample_rate)
      cos_w == Cos(w0)
      sin_w == Sin(w0)
      alpha == (sin_w * Unit) \div (2 * f.q)
      b == CASE f.mode = "LowPass" ->
                  <<(Unit - cos_w) \div 2, Unit - cos_w, (Unit - cos_w) \div 2>>
             [] f.mode = "HighPass" ->
                  <<(Unit + cos_w) \div 2, -(Unit + cos_w), (Unit + cos_w) \div 2>>
             [] f.mode = "BandPass" -> <<sin_w \div 2, 0, -(sin_w \div 2)>>
      a0 == Unit + alpha
  IN [f EXCEPT !.b0 = (b[1] * Unit) \div a0, !.b1 = (b[2] * Unit) \div a0,
               !.b2 = (b[3] * Unit) \div a0,
               !.a1 = (-2 * cos_w * Unit) \div a0,
               !.a2 = ((Unit - alpha) * Unit) \div a0,
               !.last_cutoff = f.cutoff, !.last_q = f.q, !.last_mode = f.mode]

\* BiquadFilter::new
NewBiquadFilter(sr) ==
  recompute([enabled |-> FALSE, mode |-> "LowPass", cutoff |-> 5000, q |-> 707,
             sample_rate |-> sr, b0 |-> 0, b1 |-> 0, b2 |-> 0, a1 |-> 0, a2 |-> 0,
             x1 |-> 0, x2 |-> 0, y1 |-> 0, y2 |-> 0,
             last_cutoff |-> -1, last_q |-> -Unit, last_mode |-> "LowPass"])

\* BiquadFilter::reset_state
reset_state(f) == [f EXCEPT !.x1 = 0, !.x2 = 0, !.y1 = 0, !.y2 = 0]

\* a process that filters with the coefficients it finds
ProcessNeverRecomputes(f, x) ==
  IF ~f.enabled THEN <<f, x>>
  ELSE LET y == Mul(f.b0, x) + Mul(f.b1, f.x1) + Mul(f.b2, f.x2)
                - Mul(f.a1, f.y1) - Mul(f.a2, f.y2)
       IN <<[f EXCEPT !.x2 = f.x1, !.x1 = x, !.y2 = f.y1, !.y1 = y], y>>
\* BiquadFilter::process: <<filter after the call, returned sample>>
biquad_process(f, x) ==
  IF ~f.enabled THEN <<f, x>>
  ELSE LET g == IF f.cutoff # f.last_cutoff \/ f.q # f.last_q \/ f.mode # f.last_mode
                THEN recompute(f) ELSE f
           y == Mul(g.b0, x) + Mul(g.b1, g.x1) + Mul(g.b2, g.x2)
                - Mul(g.a1, g.y1) - Mul(g.a2, g.y2)
       IN <<[g EXCEPT !.x2 = g.x1, !.x1 = x, !.y2 = g.y1, !.y1 = y], y>>

\* the process method of a boxed AudioEffect: an entry of an EffectChain is
\* the effect with the name of its type
effect_process(fx, sample) ==
  LET r == CASE fx.type = "Reverb" -> reverb_process(fx.value, sample)
             [] fx.type = "Delay" -> delay_process(fx.value, sample)
             [] fx.type = "Distortion" -> distortion_process(fx.value, sample)
  IN <<[fx EXCEPT !.value = r[1]], r[2]>>

\* the fold of EffectChain::process from effect i on
RECURSIVE chain_fold(_, _, _)
chain_fold(effects, i, s) ==
  IF i > Len(effects) THEN <<effects, s>>
  ELSE LET r == effect_process(effects[i], s)
       IN chain_fold([effects EXCEPT ![i] = r[1]], i + 1, r[2])

\* EffectChain::new and EffectChain::process
NewEffectChain == [effects |-> << >>]
chain_process(chain, sample) ==
  IF chain.effects = << >> THEN <<chain, sample>>
  ELSE LET r == chain_fold(chain.effects, 1, sample)
       IN <<[chain EXCEPT !.effects = r[1]], r[2]>>

----------------------------------------------------------------------------
(* Control surface (app.rs) *)

\* key_to_note, for the keys the model presses: (semitone, octave) per key
KeyOffset(key) ==
  CASE key = "z" -> <<0, 0>> [] key = "q" -> <<0, 1>> [] key = "," -> <<12, 0>>

key_to_note(key, base_octave) ==
  LET note == (base_octave + KeyOffset(key)[2]) * 12 + 12 + KeyOffset(key)[1]
  IN IF note >= 0 /\ note <= 127 THEN Some(note) ELSE None

\* ScaleQuantizer::quantize with the scale off: the note passes unchanged
quantize(note) == note

----------------------------------------------------------------------------
(* Inputs the model draws from *)

NoteInputs == {60, 72}

\* the (track, step) indices an edit is called with: inside the pattern, a
\* track that does not exist, and a step beyond the longest pattern
EditIndexes == {<<0, 0>>, <<8, 0>>, <<0, 40>>}

\* the samples an effect is given, in thousandths.  The bus values of
\* generate_sample are not computed: the input of an effect that is switched
\* on is any of FxSamples, and of one that ignores its input a single value
FxSamples == {-1000, 250, 1000}
FxInputs(active) == IF active THEN FxSamples ELSE {0}
Empty(n) == [i \in 1..n |-> None]

\* Voice values of every stage, for the operations of Voice alone
VoiceInputs ==
  [note : {60}, stage : {Stages[i] : i \in 1..5},
   level : {F32Zero, F32Lit(1, 2), sustain, F32One},
   release_level : {F32Zero, sustain, F32One}, since_release : {0}]

\* SeqSave values a file can hold: a one-step pattern, a 16-entry array saved
\* with num_steps 8, and a step count above the largest the engine accepts
SeqSaves ==
  { [num_steps |-> 1, steps |-> <<Some(72)>>],
    [num_steps |-> 8, steps |-> SetAt(Empty(16), 1, Some(60))],
    [num_steps |-> 40, steps |-> << >>] }

DefaultSeqSave == [num_steps |-> 16, steps |-> Empty(16)]
DefaultTrackSaves == [i \in 1..8 |-> [kind |-> i - 1, steps |-> [j \in 1..16 |-> 0],
                                      muted |-> FALSE, volume |-> 85]]
DefaultDrumSave == [num_steps |-> 16, swing |-> 0, tracks |-> DefaultTrackSaves]

\* the 9 send levels of FxRouting, in percent
Sends ==
  {"s1_reverb", "s1_delay", "s1_dist", "s2_reverb", "s2_delay", "s2_dist",
   "dr_reverb", "dr_delay", "dr_dist"}

\* the SaveFile a program that was just started writes.  Volumes, swing and
\* send levels are in percent, effect parameters in thousandths, times in ms
\* and the cutoff in Hz, as in the state; wave, filter mode and scale are the
\* u8 indices of the file
DefaultSaveFile ==
  [bpm |-> 120, base_octave |-> 4, scale |-> 0, scale_root |-> 0,
   wave1 |-> 0, wave2 |-> 0, volume |-> 50, volume2 |-> 50,
   seq1 |-> DefaultSeqSave, seq2 |-> DefaultSeqSave, drums |-> DefaultDrumSave,
   reverb |-> [enabled |-> FALSE, room_size |-> 500, damping |-> 500, mix |-> 300],
   delay |-> [enabled |-> FALSE, time_ms |-> 250, feedback |-> 400, mix |-> 300],
   distortion |-> [enabled |-> FALSE, drive |-> 3000, tone |-> 300, level |-> 700],
   sidechain |-> [enabled |-> FALSE, depth |-> 500, release_ms |-> 150,
                  duck_s1 |-> TRUE, duck_s2 |-> TRUE],
   filter1 |-> [enabled |-> FALSE, mode |-> 0, cutoff |-> 5000, q |-> 707],
   filter2 |-> [enabled |-> FALSE, mode |-> 0, cutoff |-> 5000, q |-> 707],
   routing |-> [r \in Sends |-> 0]]

\* DrumsSave values a file can hold: a one-step pattern with swing, and a
\* file with a single track and a step count above the largest accepted
DrumSaves ==
  { [num_steps |-> 1, swing |-> 25, tracks |-> DefaultTrackSaves],
    [num_steps |-> 40, swing |-> 80,
     tracks |-> <<[kind |-> 0, steps |-> <<0, 0, 0>>, muted |-> TRUE,
                   volume |-> 120]>>] }

\* the step counts the files of the euclidean_fill behaviours hold
FillSaves ==
  { [num_steps |-> n, swing |-> 0, tracks |-> DefaultTrackSaves] : n \in {0, 5, 12} }

\* the files the drum behaviours load
DrumSnapshots == {[DefaultSaveFile EXCEPT !.drums = d] : d \in DrumSaves}
FillSnapshots == {[DefaultSaveFile EXCEPT !.drums = d] : d \in FillSaves}

\* files written by hand that parse: one with a single track and a step
\* count above the largest accepted; one with every number outside its
\* range; one with every effect switched on and every number inside its range
EditedFiles ==
  { [DefaultSaveFile EXCEPT
       !.drums = [num_steps |-> 40, swing |-> 25,
                  tracks |-> <<[kind |-> 0, steps |-> <<100, 0, 50>>, muted |-> TRUE,
                                volume |-> 60]>>]],
    [bpm |-> 1000, base_octave |-> 12, scale |-> 9, scale_root |-> 13,
     wave1 |-> 7, wave2 |-> 1, volume |-> 150, volume2 |-> -20,
     seq1 |-> [num_steps |-> 5, steps |-> <<Some(200), None>>],
     seq2 |-> [num_steps |-> 0, steps |-> << >>],
     drums |-> [num_steps |-> 5, swing |-> 80,
                tracks |-> [i \in 1..8 |-> [kind |-> 0, steps |-> <<200, 0, 50, 0, 0>>,
                                            muted |-> FALSE, volume |-> 120]]],
     reverb |-> [enabled |-> TRUE, room_size |-> 5000, damping |-> -100, mix |-> 2000],
     delay |-> [enabled |-> TRUE, time_ms |-> 5000, feedback |-> 990, mix |-> 2000],
     distortion |-> [enabled |-> TRUE, drive |-> 50000, tone |-> 2000, level |-> -5],
     sidechain |-> [enabled |-> TRUE, depth |-> 3000, release_ms |-> 1,
                    duck_s1 |-> FALSE, duck_s2 |-> TRUE],
     filter1 |-> [enabled |-> TRUE, mode |-> 9, cutoff |-> 50000, q |-> 100],
     filter2 |-> [enabled |-> FALSE, mode |-> 2, cutoff |-> 20, q |-> 20000],
     routing |-> [r \in Sends |-> IF r = "s1_reverb" THEN 300 ELSE -10]],
    [DefaultSaveFile EXCEPT
       !.bpm = 90, !.base_octave = 2, !.scale = 2, !.scale_root = 7,
       !.wave1 = 3, !.wave2 = 2, !.volume = 80,
       !.seq1 = [num_steps |-> 8, steps |-> SetAt(Empty(8), 3, Some(64))],
       !.reverb = [enabled |-> TRUE, room_size |-> 800, damping |-> 200, mix |-> 500],
       !.delay = [enabled |-> TRUE, time_ms |-> 500, feedback |-> 600, mix |-> 400],
       !.distortion = [enabled |-> TRUE, drive |-> 5000, tone |-> 500, level |-> 500],
       !.sidechain = [enabled |-> TRUE, depth |-> 700, release_ms |-> 200,
                      duck_s1 |-> TRUE, duck_s2 |-> FALSE],
       !.filter1 = [enabled |-> TRUE, mode |-> 1, cutoff |-> 1000, q |-> 2000],
       !.filter2 = [enabled |-> TRUE, mode |-> 2, cutoff |-> 200, q |-> 500],
       !.routing = [r \in Sends |-> IF r = "dr_delay" THEN 100 ELSE 35]] }

\* the files the sequencer behaviours load
SeqSnapshots == {[DefaultSaveFile EXCEPT !.seq1 = q] : q \in SeqSaves}

----------------------------------------------------------------------------
(* State *)

\* the Sidechain fields app.rs reads and writes; its constructor is not part
\* of src/, the parameters start inside the ranges app.rs clamps them to
NewSidechain ==
  [enabled |-> FALSE, depth |-> 500, release_ms |-> 150, duck_s1 |-> TRUE,
   duck_s2 |-> TRUE]

\* the effect fields of Synth::new, with the per-bank filters app.rs uses
NewEffects(sr) ==
  [reverb |-> NewReverb, delay |-> NewDelay(sr), distortion |-> NewDistortion,
   sidechain |-> NewSidechain, filter1 |-> NewBiquadFilter(sr),
   filter2 |-> NewBiquadFilter(sr), fx |-> NewEffectChain, fx2 |-> NewEffectChain]

\* FxRouting::new and the wave and volume fields of Synth::new
NewFxRouting == [r \in Sends |-> 0]
NewMixer ==
  [wave_type |-> "Sine", wave_type2 |-> "Sine", volume |-> 50, volume2 |-> 50,
   fx_routing |-> NewFxRouting]

\* Scale::ALL: scale.rs is not part of src/.  The list holds every Scale, Off
\* first; "A" and "B" stand for the scales other than Off
ScaleAll == <<"Off", "A", "B">>

\* the cursors, the scale and the status line of App::new.  status_msg is ""
\* at the start, "Msg" after a handler reported what it did and "Error" after
\* a handler reported a failure
NewUi ==
  [seq_cursor |-> [b \in 1..2 |-> 0], drum_track |-> 0, drum_step |-> 0,
   effects_sel |-> 0, effects_param |-> 0, scale |-> "Off", scale_root |-> 0,
   mode |-> "Play", status_msg |-> ""]
Reported(u) == [u EXCEPT !.status_msg = "Msg"]

VARIABLES
  sample_rate,    \* Synth::sample_rate
  bpm,            \* Synth::bpm
  master_clock,   \* Synth::master_clock
  sequencer,      \* Synth::sequencer (bank 1) and Synth::sequencer2 (bank 2)
  voices,         \* Synth::voices (bank 1) and Synth::voices2 (bank 2)
  drum_machine,   \* Synth::drum_machine
  effects,        \* Synth::reverb, delay, distortion, sidechain, filter1, filter2, fx, fx2
  mixer,          \* Synth::wave_type, wave_type2, volume, volume2, fx_routing
  pressed_keys,   \* App::pressed_keys
  base_octave,    \* App::base_octave
  ui,             \* App::scale_q, the cursors and status_msg
  saved,          \* the file App::save wrote, if any
  voice,          \* a Voice outside any bank, for the operations of Voice alone
  last,           \* history: what the last operation was given and what it did
  drum_log,       \* history: the firing of the drum step window being played
  threads         \* the Mutex around the Synth, and where each thread is with it

engine == <<bpm, master_clock, sequencer, voices, drum_machine>>
sound == <<effects, mixer>>
app == <<pressed_keys, base_octave, ui>>
\* what no operation of the engine or the control surface writes; an action
\* that models a handler from its first lock() to its last unlock leaves the
\* Mutex free, as it found it
fixed == <<sample_rate, voice, threads>>
vars == <<fixed, engine, sound, app, saved, last, drum_log>>

NoTick == [called |-> FALSE, clock |-> 0, cur_before |-> 0, result |-> None]
NoTicks == [b \in Banks |-> NoTick]
NoneInserted == [b \in Banks |-> {}]
NonePruned == [b \in Banks |-> {}]
\* op: the operation; tick: per bank, the tick call and its result; inserted:
\* per bank, the notes inserted and whether the bank held the note before;
\* pruned: per bank, the voices retain() removed; off: the note-offs applied
\* and whether the bank held the note; fill: the euclidean_fill arguments;
\* voice: the free-standing Voice before the operation; calls: the number of
\* operations of a budgeted behaviour so far; fx: the effect a process call
\* was made on, whether it was enabled, the sample given and the one returned;
\* file: the SaveFile load was given; edit: the edit made, the track and step
\* it was made at and the drum machine before it; panicked: the operation panicked
NoLast ==
  [op |-> "none", tick |-> NoTicks, inserted |-> NoneInserted, pruned |-> NonePruned,
   off |-> {}, fill |-> None, voice |-> None, calls |-> 0, fx |-> None,
   file |-> None, edit |-> None, panicked |-> FALSE]
NoFire == [fired |-> FALSE, step |-> 0, phase |-> 0, sps |-> 1, swing |-> 0,
           open |-> FALSE, count |-> 0, done |-> FALSE]

HasVoice(bank, note) == \E v \in bank : v.note = note

\* Synth::new and App::new
\* the Mutex is free, the control thread is between two handlers and the
\* audio thread between two callbacks; calls counts the handlers called
NoThreads ==
  [lock |-> "free", ctl |-> [at |-> "idle", todo |-> << >>], audio |-> "idle",
   calls |-> 0]

InitWith(sr) ==
  /\ sample_rate = sr
  /\ bpm = InitBpm
  /\ master_clock = 0
  /\ sequencer = [b \in Banks |-> NewSequencer]
  /\ voices = [b \in Banks |-> {}]
  /\ drum_machine = NewDrumMachine
  /\ effects = NewEffects(sr)
  /\ mixer = NewMixer
  /\ pressed_keys = {}
  /\ base_octave = 4
  /\ ui = NewUi
  /\ saved = None
  /\ last = NoLast
  /\ drum_log = NoFire
  /\ threads = NoThreads

Init == InitWith(SampleRate) /\ voice = None

\* the drum window history after a control operation wrote bpm, swing or playing
Disturbed == [drum_log EXCEPT !.open = FALSE, !.fired = FALSE]
Undisturbed == [drum_log EXCEPT !.fired = FALSE]

----------------------------------------------------------------------------
(* Synth::generate_sample *)

TickOf(b, clock) == tick(sequencer[b], sample_rate, bpm, clock)
Sounding(b, clock) == apply_event(voices[b], TickOf(b, clock)[2])

DrumLogAfter(clock) ==
  LET sps == Max(dm_samples_per_step(sample_rate, bpm), 1)
      phase == clock % sps
      fired == dm_fires(drum_machine, sample_rate, bpm, clock)
      n == IF fired THEN 1 ELSE 0
  IN [fired |-> fired,
      step |-> (clock \div sps) % drum_machine.num_steps,
      phase |-> phase, sps |-> sps, swing |-> drum_machine.swing,
      open |-> IF phase = 0 THEN drum_machine.playing ELSE drum_log.open,
      count |-> IF phase = 0 THEN n ELSE drum_log.count + n,
      done |-> phase = sps - 1]

generate_sample ==
  LET clock == master_clock
  IN /\ master_clock' = clock + 1
     /\ sequencer' = [b \in Banks |-> TickOf(b, clock)[1]]
     /\ voices' = [b \in Banks |-> bank_retained(bank_rendered(Sounding(b, clock), sample_rate))]
     /\ drum_machine' = dm_generate_sample(drum_machine, sample_rate, bpm, clock)
     /\ last' = [NoLast EXCEPT
                   !.op = "generate_sample",
                   !.tick = [b \in Banks |->
                               [called |-> TRUE, clock |-> clock,
                                cur_before |-> sequencer[b].current_step,
                                result |-> TickOf(b, clock)[2]]],
                   !.inserted = [b \in Banks |->
                                   LET ev == TickOf(b, clock)[2]
                                   IN IF IsSome(ev) /\ IsSome(Unwrap(ev).note_on)
                                      THEN {[note |-> Unwrap(Unwrap(ev).note_on),
                                             had |-> HasVoice(voices[b],
                                                              Unwrap(Unwrap(ev).note_on))]}
                                      ELSE {}],
                   !.pruned = [b \in Banks |->
                                 {v \in bank_rendered(Sounding(b, clock), sample_rate) :
                                    is_finished(v)}]]
     /\ drum_log' = DrumLogAfter(clock)
     /\ \E x1 \in FxInputs(effects.fx.effects # << >>),
           x2 \in FxInputs(effects.fx2.effects # << >>),
           xr \in FxInputs(effects.reverb.enabled),
           xd \in FxInputs(effects.delay.enabled) :
          effects' = [effects EXCEPT !.fx = chain_process(@, x1)[1],
                                     !.fx2 = chain_process(@, x2)[1],
                                     !.reverb = reverb_process(@, xr)[1],
                                     !.delay = delay_process(@, xd)[1]]
     /\ UNCHANGED <<fixed, mixer, saved, bpm, app>>

\* the audio callback, while the explored clock lasts
GenerateSample == master_clock < MaxClock /\ generate_sample

\* Sequencer::tick called with the clock it is given
Tick(b, clock) ==
  /\ sequencer' = [sequencer EXCEPT ![b] = TickOf(b, clock)[1]]
  /\ last' = [NoLast EXCEPT
                !.op = "tick",
                !.tick = [NoTicks EXCEPT ![b] =
                            [called |-> TRUE, clock |-> clock,
                             cur_before |-> sequencer[b].current_step,
                             result |-> TickOf(b, clock)[2]]]]
  /\ drum_log' = Undisturbed
  /\ UNCHANGED <<fixed, sound, saved, bpm, master_clock, voices, drum_machine, app>>

----------------------------------------------------------------------------
(* Live keys: App::key_press / key_release over Synth::note_on / note_off *)

\* Synth::note_on
note_on(bank, note) == bank_insert(bank, note)
\* Synth::note_off / note_off2
note_off(bank, note) == bank_release(bank, note)

RECURSIVE release_keys(_, _, _)
\* the note-offs of release_all: one key_release per pressed key
release_keys(bank, keys, octave) ==
  IF keys = {} THEN bank
  ELSE LET k == CHOOSE x \in keys : TRUE
           n == key_to_note(k, octave)
       IN release_keys(IF IsSome(n) THEN note_off(bank, quantize(Unwrap(n))) ELSE bank,
                       keys \ {k}, octave)

KeyPress(key) ==
  /\ key \notin pressed_keys
  /\ pressed_keys' = pressed_keys \cup {key}
  /\ LET n == key_to_note(key, base_octave)
     IN /\ voices' = IF IsSome(n)
                     THEN [voices EXCEPT ![1] = note_on(@, quantize(Unwrap(n)))]
                     ELSE voices
        /\ last' = [NoLast EXCEPT
                      !.op = "key_press",
                      !.inserted[1] =
                         IF IsSome(n)
                         THEN {[note |-> quantize(Unwrap(n)),
                                had |-> HasVoice(voices[1], quantize(Unwrap(n)))]}
                         ELSE {}]
  /\ drum_log' = Undisturbed
  /\ UNCHANGED <<fixed, sound, saved, bpm, master_clock, sequencer, drum_machine, base_octave, ui>>

KeyRelease(key) ==
  /\ key \in pressed_keys
  /\ pressed_keys' = pressed_keys \ {key}
  /\ LET n == key_to_note(key, base_octave)
     IN /\ voices' = IF IsSome(n)
                     THEN [voices EXCEPT ![1] = note_off(@, quantize(Unwrap(n)))]
                     ELSE voices
        /\ last' = [NoLast EXCEPT
                      !.op = "key_release",
                      !.off = IF IsSome(n)
                              THEN {[bank |-> 1, note |-> quantize(Unwrap(n)),
                                     had |-> HasVoice(voices[1], quantize(Unwrap(n)))]}
                              ELSE {}]
  /\ drum_log' = Undisturbed
  /\ UNCHANGED <<fixed, sound, saved, bpm, master_clock, sequencer, drum_machine, base_octave, ui>>

\* Synth::note_off (bank 1) and Synth::note_off2 (bank 2) called with any note
NoteOff(b, note) ==
  /\ voices' = [voices EXCEPT ![b] = note_off(@, note)]
  /\ last' = [NoLast EXCEPT
                !.op = "note_off",
                !.off = {[bank |-> b, note |-> note, had |-> HasVoice(voices[b], note)]}]
  /\ drum_log' = Undisturbed
  /\ UNCHANGED <<fixed, sound, saved, bpm, master_clock, sequencer, drum_machine, app>>

----------------------------------------------------------------------------
(* Sequencer controls: App::seq_toggle_play / seq2_toggle_play, and         *)
(* Sequencer::cycle_num_steps, set_step and clear_step at any step index    *)

SeqTogglePlay(b) ==
  /\ LET r == seq_toggle_play(sequencer[b])
     IN /\ sequencer' = [sequencer EXCEPT ![b] = r[1]]
        /\ voices' = IF IsSome(r[2])
                     THEN [voices EXCEPT ![b] = note_off(@, Unwrap(r[2]))]
                     ELSE voices
        /\ last' = [NoLast EXCEPT
                      !.op = "seq_toggle_play",
                      !.off = IF IsSome(r[2])
                              THEN {[bank |-> b, note |-> Unwrap(r[2]),
                                     had |-> HasVoice(voices[b], Unwrap(r[2]))]}
                              ELSE {}]
  /\ drum_log' = Undisturbed
  /\ ui' = Reported(ui)
  /\ UNCHANGED <<fixed, sound, saved, bpm, master_clock, drum_machine, pressed_keys,
                 base_octave>>

SeqOp(b, sq, name) ==
  /\ sequencer' = [sequencer EXCEPT ![b] = sq]
  /\ last' = [NoLast EXCEPT !.op = name]
  /\ drum_log' = Undisturbed
  /\ UNCHANGED <<fixed, sound, saved, bpm, master_clock, voices, drum_machine, app>>

SeqCycleNumSteps(b) == SeqOp(b, seq_cycle_num_steps(sequencer[b]), "seq_cycle_steps")

SeqSetStep(b, step, note) == SeqOp(b, seq_set_step(sequencer[b], step, note), "seq_set_step")

SeqClearStep(b, step) == SeqOp(b, seq_clear_step(sequencer[b], step), "seq_clear_step")

----------------------------------------------------------------------------
(* Drum controls: App::drum_toggle_play, drum_cycle_steps, drum_swing_up /   *)
(* down, and DrumMachine::toggle_step, toggle_mute, trigger_now and          *)
(* euclidean_fill at any track and step index                                *)

DrumOp(dm, log, name) ==
  /\ drum_machine' = dm
  /\ drum_log' = log
  /\ last' = [NoLast EXCEPT !.op = name]
  /\ UNCHANGED <<fixed, sound, saved, bpm, master_clock, sequencer, voices, app>>

\* a handler of App that writes the drum machine, the cursors and status_msg
AppDrumOp(dm, log, name, u) ==
  /\ drum_machine' = dm
  /\ drum_log' = log
  /\ ui' = Reported(u)
  /\ last' = [NoLast EXCEPT !.op = name]
  /\ UNCHANGED <<fixed, sound, saved, bpm, master_clock, sequencer, voices,
                 pressed_keys, base_octave>>

DrumTogglePlay ==
  AppDrumOp(dm_toggle_play(drum_machine), Disturbed, "drum_toggle_play", ui)

DrumToggleStep(track, step) ==
  DrumOp(dm_toggle_step(drum_machine, track, step), Undisturbed, "drum_toggle_step")

DrumToggleMute(track) ==
  DrumOp(dm_toggle_mute(drum_machine, track), Undisturbed, "drum_toggle_mute")

\* App::drum_cycle_steps: the step cursor goes to 0 when it fell off the pattern
DrumCycleNumSteps ==
  LET dm == dm_cycle_num_steps(drum_machine)
  IN AppDrumOp(dm, Undisturbed, "drum_cycle_steps",
               [ui EXCEPT !.drum_step = IF @ >= dm.num_steps THEN 0 ELSE @])

\* App::drum_swing_up / drum_swing_down
swing_up(dm) == [dm EXCEPT !.swing = Min(@ + 5, MaxSwing)]
swing_down(dm) == [dm EXCEPT !.swing = Max(@ - 5, 0)]

DrumSwingUp == AppDrumOp(swing_up(drum_machine), Disturbed, "drum_swing_up", ui)

DrumSwingDown == AppDrumOp(swing_down(drum_machine), Disturbed, "drum_swing_down", ui)

DrumTriggerNow(track) ==
  DrumOp(trigger_now(drum_machine, track, sample_rate), Undisturbed, "trigger_now")

DrumEuclideanFill(track, k) ==
  /\ drum_machine' = euclidean_fill(drum_machine, track, k)
  /\ drum_log' = Undisturbed
  /\ last' = [NoLast EXCEPT !.op = "euclidean_fill",
                            !.fill = Some([track |-> track, k |-> k])]
  /\ UNCHANGED <<fixed, sound, saved, bpm, master_clock, sequencer, voices, app>>

----------------------------------------------------------------------------
(* App::bpm_up / bpm_down *)

BpmOp(new, name) ==
  /\ bpm' = new
  /\ drum_log' = Disturbed
  /\ last' = [NoLast EXCEPT !.op = name]
  /\ ui' = Reported(ui)
  /\ UNCHANGED <<fixed, sound, saved, master_clock, sequencer, voices, drum_machine,
                 pressed_keys, base_octave>>

BpmUp == BpmOp(Clamp(bpm + 5, MinBpm, MaxBpm), "bpm_up")

BpmDown == BpmOp(Clamp(bpm - 5, MinBpm, MaxBpm), "bpm_down")

----------------------------------------------------------------------------
(* Effects controls: App::effects_sel_up / down and effects_on_off, and the *)
(* process method of each effect called with any sample                     *)

\* one more operation of a behaviour that is explored up to a number of them
Counted(name) == [NoLast EXCEPT !.op = name, !.calls = last.calls + 1]

UiOp(u, name) ==
  /\ ui' = u
  /\ last' = Counted(name)
  /\ drum_log' = Undisturbed
  /\ UNCHANGED <<fixed, engine, sound, saved, pressed_keys, base_octave>>

EffectsSelUp ==
  UiOp([ui EXCEPT !.effects_sel = IF @ = 0 THEN 5 ELSE @ - 1], "effects_sel_up")

EffectsSelDown == UiOp([ui EXCEPT !.effects_sel = (@ + 1) % 6], "effects_sel_down")

\* App::drum_step_left / drum_step_right: the step cursor wraps at num_steps
DrumStepLeft ==
  UiOp([ui EXCEPT !.drum_step = IF @ = 0 THEN drum_machine.num_steps - 1 ELSE @ - 1],
       "drum_step_left")

DrumStepRight ==
  UiOp([ui EXCEPT !.drum_step = (@ + 1) % drum_machine.num_steps], "drum_step_right")

\* App::drum_track_up / drum_track_down: the track cursor wraps at tracks.len()
DrumTrackUp ==
  UiOp([ui EXCEPT !.drum_track = IF @ = 0 THEN Len(drum_machine.tracks) - 1 ELSE @ - 1],
       "drum_track_up")

DrumTrackDown ==
  UiOp([ui EXCEPT !.drum_track = (@ + 1) % Len(drum_machine.tracks)], "drum_track_down")

\* the step and track edits of DrumMachine, by name
EditOps ==
  {"toggle_step", "clear_step", "step_prob_up", "step_prob_down", "toggle_mute",
   "track_volume_up", "track_volume_down", "trigger_now"}
dm_edit(op, dm, track, step, sr) ==
  CASE op = "toggle_step" -> dm_toggle_step(dm, track, step)
    [] op = "clear_step" -> dm_clear_step(dm, track, step)
    [] op = "step_prob_up" -> step_prob_up(dm, track, step)
    [] op = "step_prob_down" -> step_prob_down(dm, track, step)
    [] op = "toggle_mute" -> dm_toggle_mute(dm, track)
    [] op = "track_volume_up" -> track_volume_up(dm, track)
    [] op = "track_volume_down" -> track_volume_down(dm, track)
    [] op = "trigger_now" -> trigger_now(dm, track, sr)

\* an edit of DrumMachine called with any track and step index; checked
\* says whether the build panics on integer overflow
DrumEdit(op, track, step, checked) ==
  LET panics == op = "step_prob_up" /\ checked
                /\ prob_up_overflows(drum_machine, track, step)
  IN /\ drum_machine' = IF panics THEN drum_machine
                        ELSE dm_edit(op, drum_machine, track, step, sample_rate)
     /\ last' = [Counted(op) EXCEPT
                   !.edit = Some([op |-> op, track |-> track, step |-> step,
                                  before |-> drum_machine]),
                   !.panicked = panics]
     /\ drum_log' = Undisturbed
     /\ UNCHANGED <<fixed, sound, saved, bpm, master_clock, sequencer, voices, app>>

\* App::drum_toggle_step, drum_clear_step, drum_toggle_mute, drum_vol_up /
\* down and drum_prob_up / down: the edit at the cursors.  reads is what the
\* handler indexes after the edit to build its report: nothing, the track
\* (tracks[track]) or the step (tracks[track].steps[step]); an index out of
\* range panics and the report is not written
AppDrumEdit(op, reads, checked) ==
  LET track == ui.drum_track
      step == ui.drum_step
      overflows == op = "step_prob_up" /\ checked
                   /\ prob_up_overflows(drum_machine, track, step)
      panics ==
        \/ overflows
        \/ reads # "nothing" /\ ~InRange(drum_machine.tracks, track)
        \/ reads = "step" /\ ~InRange(At(drum_machine.tracks, track).steps, step)
  IN /\ drum_machine' = IF overflows THEN drum_machine
                        ELSE dm_edit(op, drum_machine, track, step, sample_rate)
     /\ ui' = IF panics \/ reads = "nothing" THEN ui ELSE Reported(ui)
     /\ last' = [Counted(op) EXCEPT
                   !.op = "app_" \o op,
                   !.edit = Some([op |-> op, track |-> track, step |-> step,
                                  before |-> drum_machine]),
                   !.panicked = panics]
     /\ drum_log' = Undisturbed
     /\ UNCHANGED <<fixed, sound, saved, bpm, master_clock, sequencer, voices,
                    pressed_keys, base_octave>>

AppDrumToggleStep == AppDrumEdit("toggle_step", "nothing", FALSE)
AppDrumClearStep == AppDrumEdit("clear_step", "nothing", FALSE)
AppDrumToggleMute == AppDrumEdit("toggle_mute", "track", FALSE)
DrumVolUp == AppDrumEdit("track_volume_up", "track", FALSE)
DrumVolDown == AppDrumEdit("track_volume_down", "track", FALSE)
DrumProbUp == \E checked \in BOOLEAN : AppDrumEdit("step_prob_up", "step", checked)
DrumProbDown == AppDrumEdit("step_prob_down", "step", FALSE)

\* the match of effects_on_off on the selected row
on_off(e, sel) ==
  CASE sel = 0 -> [e EXCEPT !.reverb.enabled = ~@]
    [] sel = 1 -> [e EXCEPT !.delay.enabled = ~@]
    [] sel = 2 -> [e EXCEPT !.distortion.enabled = ~@]
    [] sel = 3 -> [e EXCEPT !.sidechain.enabled = ~@]
    [] sel = 4 -> [e EXCEPT !.filter1 = IF @.enabled THEN [@ EXCEPT !.enabled = FALSE]
                                        ELSE reset_state([@ EXCEPT !.enabled = TRUE])]
    [] sel = 5 -> [e EXCEPT !.filter2 = IF @.enabled THEN [@ EXCEPT !.enabled = FALSE]
                                        ELSE reset_state([@ EXCEPT !.enabled = TRUE])]

EffectsOnOff ==
  /\ effects' = on_off(effects, ui.effects_sel)
  /\ ui' = Reported(ui)
  /\ last' = Counted("effects_on_off")
  /\ drum_log' = Undisturbed
  /\ UNCHANGED <<fixed, engine, mixer, saved, pressed_keys, base_octave>>

\* a process call on one effect of the engine: r is <<effect after, output>>
FxCall(name, e, enabled, x, r) ==
  /\ effects' = e
  /\ last' = [Counted("process") EXCEPT
                !.fx = Some([effect |-> name, enabled |-> enabled, input |-> x,
                             output |-> r[2]])]
  /\ drum_log' = Undisturbed
  /\ UNCHANGED <<fixed, engine, mixer, saved, app>>

ReverbProcess(x) ==
  LET r == reverb_process(effects.reverb, x)
  IN FxCall("Reverb", [effects EXCEPT !.reverb = r[1]], effects.reverb.enabled, x, r)

DelayProcess(x) ==
  LET r == delay_process(effects.delay, x)
  IN FxCall("Delay", [effects EXCEPT !.delay = r[1]], effects.delay.enabled, x, r)

DistortionProcess(x) ==
  LET r == distortion_process(effects.distortion, x)
  IN FxCall("Distortion", [effects EXCEPT !.distortion = r[1]],
            effects.distortion.enabled, x, r)

FilterProcess(x) ==
  LET r == biquad_process(effects.filter1, x)
  IN FxCall("BiquadFilter", [effects EXCEPT !.filter1 = r[1]],
            effects.filter1.enabled, x, r)

\* the chain counts as enabled when it holds an effect
ChainProcess(x) ==
  LET r == chain_process(effects.fx, x)
  IN FxCall("EffectChain", [effects EXCEPT !.fx = r[1]],
            effects.fx.effects # << >>, x, r)

----------------------------------------------------------------------------
(* App::load of a file that parses to the SaveFile sf *)

LoadSeqNoResize(sq, sv) ==
  [sq EXCEPT !.num_steps = Clamp(sv.num_steps, 1, MaxSteps), !.steps = sv.steps]
\* the "Sequencer 1" / "Sequencer 2" block of load
load_sequencer(sq, sv) ==
  LET n == Clamp(sv.num_steps, 1, MaxSteps)
  IN [sq EXCEPT !.num_steps = n, !.steps = Resize(sv.steps, n, None)]

\* the "Drums" block of load
load_drums(dm, sv) ==
  LET nd == Clamp(sv.num_steps, 1, MaxSteps)
      n_tracks == Min(Len(dm.tracks), Len(sv.tracks))
  IN [dm EXCEPT !.num_steps = nd,
                !.swing = Clamp(sv.swing, 0, MaxSwing),
                !.tracks = [i \in 1..Len(dm.tracks) |->
                              IF i <= n_tracks
                              THEN [dm.tracks[i] EXCEPT
                                      !.steps = Resize(sv.tracks[i].steps, nd, 0),
                                      !.muted = sv.tracks[i].muted,
                                      !.volume = Clamp(sv.tracks[i].volume, 0, 100)]
                              ELSE dm.tracks[i]]]

\* the match of load on a wave index and wave_idx of save
WaveTypes == <<"Sine", "Square", "Sawtooth", "Triangle">>
wave_of(i) == IF i \in 1..3 THEN WaveTypes[i + 1] ELSE "Sine"
wave_idx(w) == (CHOOSE i \in 1..4 : WaveTypes[i] = w) - 1

\* the match of load on a filter mode index and filter_mode_idx of save
mode_of(i) == IF i = 1 THEN "HighPass" ELSE IF i = 2 THEN "BandPass" ELSE "LowPass"
filter_mode_idx(m) == (CHOOSE i \in 1..3 : FilterModes[i] = m) - 1

\* Scale::ALL.get(i).unwrap_or(Scale::Off) of load and
\* Scale::ALL.iter().position(..).unwrap_or(0) of save
scale_of(i) == IF i < Len(ScaleAll) THEN ScaleAll[i + 1] ELSE "Off"
scale_idx(sc) ==
  IF \E i \in 1..Len(ScaleAll) : ScaleAll[i] = sc
  THEN (CHOOSE i \in 1..Len(ScaleAll) : ScaleAll[i] = sc) - 1
  ELSE 0

\* the wave, volume and "Routing" assignments of load
load_mixer(sf) ==
  [wave_type |-> wave_of(sf.wave1), wave_type2 |-> wave_of(sf.wave2),
   volume |-> Clamp(sf.volume, 0, 100), volume2 |-> Clamp(sf.volume2, 0, 100),
   fx_routing |-> [r \in Sends |-> Clamp(sf.routing[r], 0, 100)]]

\* the "Filter 1" / "Filter 2" block of load
load_filter(f, sv) ==
  LET g == [f EXCEPT !.enabled = sv.enabled, !.mode = mode_of(sv.mode),
                     !.cutoff = Clamp(sv.cutoff, 80, 18000),
                     !.q = Clamp(sv.q, 500, 10 * Unit)]
  IN IF g.enabled THEN reset_state(g) ELSE g

\* the "Reverb", "Delay", "Distortion", "Sidechain" and filter blocks of load
load_effects(e, sf) ==
  [e EXCEPT
     !.reverb = [@ EXCEPT !.enabled = sf.reverb.enabled,
                          !.room_size = Clamp(sf.reverb.room_size, 0, Unit),
                          !.damping = Clamp(sf.reverb.damping, 0, Unit),
                          !.mix = Clamp(sf.reverb.mix, 0, Unit)],
     !.delay = [@ EXCEPT !.enabled = sf.delay.enabled,
                         !.time_ms = Clamp(sf.delay.time_ms, 10, 1000),
                         !.feedback = Clamp(sf.delay.feedback, 0, 950),
                         !.mix = Clamp(sf.delay.mix, 0, Unit)],
     !.distortion = [@ EXCEPT !.enabled = sf.distortion.enabled,
                              !.drive = Clamp(sf.distortion.drive, Unit, 10 * Unit),
                              !.tone = Clamp(sf.distortion.tone, 0, Unit),
                              !.level = Clamp(sf.distortion.level, 0, Unit)],
     !.sidechain = [@ EXCEPT !.enabled = sf.sidechain.enabled,
                             !.depth = Clamp(sf.sidechain.depth, 0, Unit),
                             !.release_ms = Clamp(sf.sidechain.release_ms, 10, 500),
                             !.duck_s1 = sf.sidechain.duck_s1,
                             !.duck_s2 = sf.sidechain.duck_s2],
     !.filter1 = load_filter(@, sf.filter1),
     !.filter2 = load_filter(@, sf.filter2)]

\* the "App-level fields" and "Reset cursors" assignments of load
load_ui(u, sf) ==
  [u EXCEPT !.scale = scale_of(sf.scale), !.scale_root = sf.scale_root % 12,
            !.seq_cursor = [b \in 1..2 |-> 0], !.drum_step = 0,
            !.status_msg = "Msg"]

\* the keys release_all sends a note-off for, with the note each maps to
ReleasedKeys ==
  {[bank |-> 1, note |-> quantize(Unwrap(key_to_note(k, base_octave))),
    had |-> HasVoice(voices[1], quantize(Unwrap(key_to_note(k, base_octave))))] :
     k \in {x \in pressed_keys : IsSome(key_to_note(x, base_octave))}}

Load(sf) ==
  /\ voices' = [voices EXCEPT ![1] = release_keys(@, pressed_keys, base_octave)]
  /\ pressed_keys' = {}
  /\ bpm' = Clamp(sf.bpm, MinBpm, MaxBpm)
  /\ sequencer' = [sequencer EXCEPT ![1] = load_sequencer(@, sf.seq1),
                                    ![2] = load_sequencer(@, sf.seq2)]
  /\ drum_machine' = load_drums(drum_machine, sf.drums)
  /\ mixer' = load_mixer(sf)
  /\ effects' = load_effects(effects, sf)
  /\ base_octave' = Clamp(sf.base_octave, 0, 8)
  /\ ui' = load_ui(ui, sf)
  /\ drum_log' = Disturbed
  /\ last' = [NoLast EXCEPT !.op = "load", !.off = ReleasedKeys, !.file = Some(sf)]
  /\ UNCHANGED <<fixed, saved, master_clock>>

\* a load that finds the file unreadable only after release_all
LoadFailsLate ==
  /\ voices' = [voices EXCEPT ![1] = release_keys(@, pressed_keys, base_octave)]
  /\ pressed_keys' = {}
  /\ ui' = [ui EXCEPT !.status_msg = "Error"]
  /\ last' = [NoLast EXCEPT !.op = "load_failed"]
  /\ drum_log' = Undisturbed
  /\ UNCHANGED <<fixed, sound, saved, bpm, master_clock, sequencer, drum_machine,
                 base_octave>>

\* load of a file that cannot be read or does not parse: both return after
\* writing the status line, before release_all
LoadFails ==
  /\ ui' = [ui EXCEPT !.status_msg = "Error"]
  /\ last' = [NoLast EXCEPT !.op = "load_failed"]
  /\ drum_log' = Undisturbed
  /\ UNCHANGED <<fixed, engine, sound, saved, pressed_keys, base_octave>>

\* load of the file save wrote last
LoadSaved == IsSome(saved) /\ Load(Unwrap(saved))

----------------------------------------------------------------------------
(* App::save *)

\* DrumKind::ALL.iter().position(..).unwrap_or(0)
kind_idx(kind) ==
  IF \E i \in 1..Len(DrumKinds) : DrumKinds[i] = kind
  THEN (CHOOSE i \in 1..Len(DrumKinds) : DrumKinds[i] = kind) - 1
  ELSE 0

seq_save(sq) == [num_steps |-> sq.num_steps, steps |-> sq.steps]

\* the SaveFile save builds from the engine and the App
save_file ==
  [bpm |-> bpm, base_octave |-> base_octave, scale |-> scale_idx(ui.scale),
   scale_root |-> ui.scale_root,
   wave1 |-> wave_idx(mixer.wave_type), wave2 |-> wave_idx(mixer.wave_type2),
   volume |-> mixer.volume, volume2 |-> mixer.volume2,
   seq1 |-> seq_save(sequencer[1]), seq2 |-> seq_save(sequencer[2]),
   drums |-> [num_steps |-> drum_machine.num_steps, swing |-> drum_machine.swing,
              tracks |-> [i \in 1..Len(drum_machine.tracks) |->
                            LET t == drum_machine.tracks[i]
                            IN [kind |-> kind_idx(t.kind), steps |-> t.steps,
                                muted |-> t.muted, volume |-> t.volume]]],
   reverb |-> [enabled |-> effects.reverb.enabled,
               room_size |-> effects.reverb.room_size,
               damping |-> effects.reverb.damping, mix |-> effects.reverb.mix],
   delay |-> [enabled |-> effects.delay.enabled, time_ms |-> effects.delay.time_ms,
              feedback |-> effects.delay.feedback, mix |-> effects.delay.mix],
   distortion |-> [enabled |-> effects.distortion.enabled,
                   drive |-> effects.distortion.drive,
                   tone |-> effects.distortion.tone,
                   level |-> effects.distortion.level],
   sidechain |-> [enabled |-> effects.sidechain.enabled,
                  depth |-> effects.sidechain.depth,
                  release_ms |-> effects.sidechain.release_ms,
                  duck_s1 |-> effects.sidechain.duck_s1,
                  duck_s2 |-> effects.sidechain.duck_s2],
   filter1 |-> [enabled |-> effects.filter1.enabled,
                mode |-> filter_mode_idx(effects.filter1.mode),
                cutoff |-> effects.filter1.cutoff, q |-> effects.filter1.q],
   filter2 |-> [enabled |-> effects.filter2.enabled,
                mode |-> filter_mode_idx(effects.filter2.mode),
                cutoff |-> effects.filter2.cutoff, q |-> effects.filter2.q],
   routing |-> mixer.fx_routing]

\* save when the file is written, and when serializing or writing fails
Save ==
  /\ saved' = Some(save_file)
  /\ ui' = Reported(ui)
  /\ last' = [NoLast EXCEPT !.op = "save"]
  /\ drum_log' = Undisturbed
  /\ UNCHANGED <<fixed, engine, sound, pressed_keys, base_octave>>

SaveFails ==
  /\ ui' = [ui EXCEPT !.status_msg = "Error"]
  /\ last' = [NoLast EXCEPT !.op = "save_failed"]
  /\ drum_log' = Undisturbed
  /\ UNCHANGED <<fixed, engine, sound, saved, pressed_keys, base_octave>>

----------------------------------------------------------------------------
(* Voice::release and Voice::next_sample on a Voice of any stage *)

VoiceRelease ==
  /\ IsSome(voice)
  /\ last.calls < MaxVoiceCalls
  /\ voice' = Some(release(Unwrap(voice)))
  /\ last' = [NoLast EXCEPT !.op = "release", !.voice = voice, !.calls = last.calls + 1]
  /\ UNCHANGED <<sample_rate, threads, engine, sound, app, saved, drum_log>>

VoiceNextSample ==
  /\ IsSome(voice)
  /\ last.calls < MaxVoiceCalls
  /\ voice' = Some(next_sample(Unwrap(voice), sample_rate))
  /\ last' = [NoLast EXCEPT !.op = "next_sample", !.voice = voice, !.calls = last.calls + 1]
  /\ UNCHANGED <<sample_rate, threads, engine, sound, app, saved, drum_log>>

----------------------------------------------------------------------------
(* Specifications *)

\* the melodic engine: live keys, note-offs, sequencer 1 and the audio callback
Next ==
  \/ GenerateSample
  \/ \E key \in {"q", ","} : KeyPress(key)
  \/ \E key \in {"q", ","} : KeyRelease(key)
  \/ \E b \in Banks, n \in NoteInputs : NoteOff(b, n)
  \/ SeqTogglePlay(1)
  \/ SeqSetStep(1, 1, 72)

Spec == Init /\ [][Next]_vars

\* the clocks tick is called with: around the step boundaries of 120 bpm at
\* 44100 Hz, and around the end of a 16-step and of an 8-step pattern
ClockInputs ==
  {0, 1, 5512, 5513, 5514, 2 * 5512, 2 * 5513, 8 * 5513, 15 * 5513,
   16 * 5512, 16 * 5513, 16 * 5513 + 1, 17 * 5513}

\* a Sequencer on its own, at the sample rate of the program
NextSeq ==
  \/ \E c \in ClockInputs : Tick(1, c)
  \/ SeqTogglePlay(1)
  \/ SeqCycleNumSteps(1)
  \/ \E st \in {0, 15, 32} : SeqSetStep(1, st, 60)
  \/ \E st \in {0, 32} : SeqClearStep(1, st)
  \/ \E sf \in SeqSnapshots : Load(sf)

SpecSeq == InitWith(RealSampleRate) /\ voice = None /\ [][NextSeq]_vars

\* a Voice on its own: release and next_sample applied to a Voice of any stage
InitVoice == InitWith(SampleRate) /\ voice \in {Some(v) : v \in VoiceInputs}

NextVoice == VoiceRelease \/ VoiceNextSample

SpecVoice == InitVoice /\ [][NextVoice]_vars

\* one key played and released at the sample rate of the program, the audio
\* callback running until the release has run out
RenderSample == master_clock < ReleaseHorizon /\ generate_sample

NextRelease ==
  \/ RenderSample
  \/ master_clock <= HoldSamples /\ KeyPress("q")
  \/ master_clock <= HoldSamples /\ KeyRelease("q")

SpecRelease == InitWith(RealSampleRate) /\ voice = None /\ [][NextRelease]_vars

\* the drum machine's transport: play, swing, step count, load and the audio
\* callback
NextDrum ==
  \/ GenerateSample
  \/ DrumTogglePlay
  \/ DrumCycleNumSteps
  \/ DrumSwingUp
  \/ DrumSwingDown
  \/ \E sf \in DrumSnapshots : Load(sf)

SpecDrum == Init /\ [][NextDrum]_vars

\* euclidean_fill over the step counts cycle_num_steps and load produce
NextFill ==
  \/ \E t \in {0, 8}, k \in 0..MaxFill : DrumEuclideanFill(t, k)
  \/ DrumCycleNumSteps
  \/ \E sf \in FillSnapshots : Load(sf)

SpecFill == Init /\ [][NextFill]_vars

\* the effects on their own: switched on and off from the effects page and
\* called with any sample, up to MaxFxCalls operations
MoreFx == last.calls < MaxFxCalls

NextFx ==
  \/ MoreFx /\ EffectsSelUp
  \/ MoreFx /\ EffectsSelDown
  \/ MoreFx /\ EffectsOnOff
  \/ \E x \in FxSamples : MoreFx /\ ReverbProcess(x)
  \/ \E x \in FxSamples : MoreFx /\ DelayProcess(x)
  \/ \E x \in FxSamples : MoreFx /\ DistortionProcess(x)
  \/ \E x \in FxSamples : MoreFx /\ FilterProcess(x)
  \/ \E x \in FxSamples : MoreFx /\ ChainProcess(x)

SpecFx == Init /\ [][NextFx]_vars

\* saving and loading: files written by hand and by save, with a key held
\* and a track muted or the step cursor moved in between
NextSave ==
  \/ \E sf \in EditedFiles : Load(sf)
  \/ LoadSaved
  \/ LoadFails
  \/ Save
  \/ SaveFails
  \/ KeyPress("q")
  \/ DrumToggleMute(1)
  \/ ui.drum_step < 1 /\ DrumStepRight

SpecSave == Init /\ [][NextSave]_vars

\* editing the drum pattern: loads and step-count changes first, then up to
\* MaxEdits cursor moves and edits, at the cursors and at any index; a panic
\* ends the program
SettingUp == last.op \in {"none", "load", "drum_cycle_steps"}
MoreEdits == last.calls < MaxEdits /\ ~last.panicked

NextEdit ==
  \/ \E sf \in EditedFiles : SettingUp /\ Load(sf)
  \/ SettingUp /\ DrumCycleNumSteps
  \/ MoreEdits /\ DrumTrackUp
  \/ MoreEdits /\ DrumTrackDown
  \/ MoreEdits /\ DrumStepLeft
  \/ MoreEdits /\ DrumStepRight
  \/ MoreEdits /\ AppDrumToggleStep
  \/ MoreEdits /\ AppDrumClearStep
  \/ MoreEdits /\ AppDrumToggleMute
  \/ MoreEdits /\ DrumVolUp
  \/ MoreEdits /\ DrumVolDown
  \/ MoreEdits /\ DrumProbUp
  \/ MoreEdits /\ DrumProbDown
  \/ \E op \in EditOps, ix \in EditIndexes, checked \in BOOLEAN :
       MoreEdits /\ DrumEdit(op, ix[1], ix[2], checked)

SpecEdit == Init /\ [][NextEdit]_vars

----------------------------------------------------------------------------
(* The audio callback against the control surface: what in generate_sample  *)
(* can panic, and the behaviours that interleave it with loads, step-count  *)
(* cycling and the transports                                               *)

\* the step indices Sequencer::tick reads at this clock: self.steps[prev] and
\* self.steps[step_idx] on a step boundary, none otherwise
tick_reads(sq, sr, tempo, clock) ==
  LET sps == Max(samples_per_step(sr, tempo), 1)
      step_idx == (clock \div sps) % sq.num_steps
  IN IF sq.playing /\ clock % sps = 0
     THEN {PrevStep(step_idx, sq.num_steps), step_idx}
     ELSE {}

\* Sequencer::tick panics: the remainder by num_steps = 0, or an index that
\* is not in the step array
tick_panics(sq, sr, tempo, clock) ==
  sq.playing /\ (\/ sq.num_steps = 0
                 \/ \E i \in tick_reads(sq, sr, tempo, clock) : ~InRange(sq.steps, i))

\* DrumMachine::generate_sample panics: the remainder by num_steps = 0 (the
\* steps are read with get)
dm_generate_sample_panics(dm) == dm.num_steps = 0

generate_sample_panics ==
  \/ \E b \in Banks : tick_panics(sequencer[b], sample_rate, bpm, master_clock)
  \/ dm_generate_sample_panics(drum_machine)

\* the audio callback: Synth::generate_sample, or its panic
AudioCallback ==
  /\ master_clock < MaxCallbacks
  /\ IF generate_sample_panics
     THEN /\ last' = [NoLast EXCEPT !.op = "generate_sample", !.panicked = TRUE]
          /\ UNCHANGED <<fixed, engine, sound, app, saved, drum_log>>
     ELSE generate_sample

\* files written by hand that parse, with step counts below, between and
\* above the ones cycle_num_steps produces, step arrays shorter and longer
\* than the step count, and a tempo above the fastest; the patterns are
\* silent, so that no voice is spawned
StepFiles ==
  { [DefaultSaveFile EXCEPT
       !.bpm = 1000,
       !.seq1 = [num_steps |-> 5, steps |-> <<None, None>>],
       !.seq2 = [num_steps |-> 0, steps |-> << >>],
       !.drums = [num_steps |-> 0, swing |-> 0,
                  tracks |-> <<[kind |-> 0, steps |-> <<0>>, muted |-> FALSE,
                                volume |-> 85]>>]],
    [DefaultSaveFile EXCEPT
       !.seq1 = [num_steps |-> 40, steps |-> Empty(16)],
       !.seq2 = [num_steps |-> 1, steps |-> <<None, None, None>>],
       !.drums = [num_steps |-> 5, swing |-> 0, tracks |-> DefaultTrackSaves]] }

NextAudio ==
  \/ AudioCallback
  \/ \E sf \in StepFiles : Load(sf)
  \/ SeqCycleNumSteps(1)
  \/ \E b \in Banks : SeqTogglePlay(b)
  \/ DrumCycleNumSteps
  \/ DrumTogglePlay

SpecAudio == Init /\ [][NextAudio]_vars

----------------------------------------------------------------------------
(* The drum machine on its own, at the sample rate of the program: a        *)
(* pattern is loaded, then toggle_play, toggle_mute, trigger_now and         *)
(* generate_sample are called in any order, up to MaxHits calls              *)

\* two steps of a track of an 8-step pattern
HitSteps(a, b) == <<a, b, 0, 0, 0, 0, 0, 0>>
HitTrack(kind, a, b, muted) ==
  [kind |-> kind, steps |-> HitSteps(a, b), muted |-> muted, volume |-> 85]

\* patterns written by hand: probabilities 0, 1, 50, 99 and 100, a muted track
\* with hits, and the two hats on the same step
HitFiles ==
  { [DefaultSaveFile EXCEPT
       !.drums = [num_steps |-> 8, swing |-> 0,
                  tracks |-> <<HitTrack(0, 50, 1, FALSE), HitTrack(1, 100, 100, TRUE),
                               HitTrack(2, 0, 50, FALSE), HitTrack(3, 100, 100, FALSE),
                               HitTrack(4, 99, 0, FALSE), HitTrack(5, 0, 0, FALSE),
                               HitTrack(6, 0, 0, FALSE), HitTrack(7, 100, 0, FALSE)>>]],
    [DefaultSaveFile EXCEPT
       !.drums = [num_steps |-> 8, swing |-> 0,
                  tracks |-> <<HitTrack(0, 1, 99, FALSE), HitTrack(1, 100, 0, FALSE),
                               HitTrack(2, 0, 100, FALSE), HitTrack(3, 100, 0, FALSE),
                               HitTrack(4, 50, 50, TRUE), HitTrack(5, 50, 50, FALSE),
                               HitTrack(6, 0, 0, FALSE), HitTrack(7, 0, 0, FALSE)>>]] }

\* the clocks generate_sample is called with: the boundaries of steps 0 and 1
\* and a sample inside step 0
HitClocks ==
  LET sps == Max(dm_samples_per_step(sample_rate, bpm), 1)
  IN {0, 1, sps}

\* DrumMachine::generate_sample called with the clock it is given
DmGenerateSample(clock) ==
  /\ drum_machine' = dm_generate_sample(drum_machine, sample_rate, bpm, clock)
  /\ last' = [Counted("dm_generate_sample") EXCEPT
                !.edit = Some([op |-> "generate_sample", clock |-> clock,
                               before |-> drum_machine])]
  /\ drum_log' = Undisturbed
  /\ UNCHANGED <<fixed, sound, saved, bpm, master_clock, sequencer, voices, app>>

\* DrumMachine::toggle_play
DmTogglePlay ==
  /\ drum_machine' = dm_toggle_play(drum_machine)
  /\ last' = [Counted("dm_toggle_play") EXCEPT
                !.edit = Some([op |-> "toggle_play", before |-> drum_machine])]
  /\ drum_log' = Disturbed
  /\ UNCHANGED <<fixed, sound, saved, bpm, master_clock, sequencer, voices, app>>

MoreHits == last.calls < MaxHits

NextHits ==
  \/ \E sf \in HitFiles : last.op = "none" /\ Load(sf)
  \/ MoreHits /\ DmTogglePlay
  \/ \E clock \in HitClocks : MoreHits /\ DmGenerateSample(clock)
  \/ \E t \in {2, 3, 8} : MoreHits /\ DrumEdit("toggle_mute", t, 0, FALSE)
  \/ \E t \in {0, 2, 3, 8} : MoreHits /\ DrumEdit("trigger_now", t, 0, FALSE)

InitHits == InitWith(RealSampleRate) /\ voice = None

SpecHits == InitHits /\ [][NextHits]_vars

----------------------------------------------------------------------------
(* One drum voice from its trigger to its removal, at the sample rate of    *)
(* the program: trigger_now on a silent machine, then generate_sample until *)
(* the pool is empty                                                        *)

TriggerOne(t) ==
  last.op = "none" /\ DrumEdit("trigger_now", t, 0, FALSE)

RenderDrums ==
  drum_machine.voices # << >> /\ DmGenerateSample(0)

NextDecay ==
  \/ \E t \in 0..7 : TriggerOne(t)
  \/ RenderDrums

SpecDecay == InitHits /\ [][NextDecay]_vars

----------------------------------------------------------------------------
(* Step-count cycling of a sequencer and of the drum machine, at the sample *)
(* rate of the program, between step edits, loads and calls that move       *)
(* current_step                                                             *)

\* files written by hand that parse: 5 steps with a single drum track, and 40
\* steps
CycleFiles ==
  { [DefaultSaveFile EXCEPT
       !.seq1 = [num_steps |-> 5, steps |-> <<Some(72), None>>],
       !.drums = [num_steps |-> 5, swing |-> 0,
                  tracks |-> <<[kind |-> 0, steps |-> <<100, 0, 50>>,
                                muted |-> FALSE, volume |-> 85]>>]],
    [DefaultSaveFile EXCEPT
       !.seq1 = [num_steps |-> 40, steps |-> SetAt(Empty(16), 9, Some(60))],
       !.drums = [num_steps |-> 40, swing |-> 0, tracks |-> DefaultTrackSaves]] }

\* the clocks of step 15 and of step 31 at bpm 120
CycleClocks ==
  LET sps == Max(samples_per_step(sample_rate, bpm), 1)
  IN {15 * sps, 31 * sps}

NextCycle ==
  \/ SeqCycleNumSteps(1)
  \/ DrumCycleNumSteps
  \/ \E sf \in CycleFiles : Load(sf)
  \/ SeqTogglePlay(1)
  \/ \E c \in CycleClocks : Tick(1, c)
  \/ \E c \in CycleClocks : MoreHits /\ DmGenerateSample(c)
  \/ SeqSetStep(1, 6, 60)
  \/ DrumToggleStep(1, 6)

SpecCycle == InitHits /\ [][NextCycle]_vars

----------------------------------------------------------------------------
(* Voices from both sources against the audio callback: live keys, a        *)
(* sequenced note, live drum triggers and a load, with generate_sample in   *)
(* between                                                                  *)

LiveTrigger(t) ==
  Len(drum_machine.voices) < MaxPool /\ DrumTriggerNow(t)

NextPrune ==
  \/ GenerateSample
  \/ KeyPress("q")
  \/ KeyRelease("q")
  \/ \E t \in {0, 2} : LiveTrigger(t)

SpecPrune == Init /\ [][NextPrune]_vars

----------------------------------------------------------------------------
(* Claims about the Sequencer, under SpecSeq *)

\* C1: in every reachable state of each melodic Sequencer (after any sequence
\* of tick, toggle_play, cycle_num_steps, set_step, clear_step and load),
\* current_step < num_steps and the step array is num_steps long.
C1_CursorInPattern ==
  \A b \in Banks :
    /\ sequencer[b].current_step < sequencer[b].num_steps
    /\ Len(sequencer[b].steps) = sequencer[b].num_steps

\* C2: a playing Sequencer ticked on a step boundary (clock mod
\* samples_per_step = 0) returns note_on = the note at step
\* i = (clock / samples_per_step) mod num_steps and note_off = the note at step
\* (i - 1) mod num_steps; off a boundary, or when not playing, tick returns no
\* event, and when not playing it leaves current_step as it was.
C2_TickEvent ==
  \A b \in Banks :
    last.tick[b].called =>
      LET t == last.tick[b]
          sq == sequencer[b]
          sps == samples_per_step(sample_rate, bpm)
          i == (t.clock \div sps) % sq.num_steps
      IN /\ (sq.playing /\ t.clock % sps = 0) =>
              t.result = Some([note_off |-> At(sq.steps, (i + sq.num_steps - 1) % sq.num_steps),
                               note_on  |-> At(sq.steps, i)])
         /\ (sq.playing /\ t.clock % sps # 0) => t.result = None
         /\ ~sq.playing => (t.result = None /\ sq.current_step = t.cur_before)

\* a 16-step pattern wraps: the tick at the end of the pattern releases the
\* note of step 15 and triggers the note of step 0
C2_Witness ==
  /\ last.tick[1].called
  /\ sequencer[1].playing
  /\ sequencer[1].num_steps = 16
  /\ last.tick[1].clock = 16 * samples_per_step(sample_rate, bpm)
  /\ IsSome(last.tick[1].result)
  /\ IsSome(Unwrap(last.tick[1].result).note_off)
  /\ IsSome(Unwrap(last.tick[1].result).note_on)

\* C3 (as amended): for sample_rate = 44100 and bpm = 120, samples_per_step of
\* the sequencer and of the drum machine is 5513, and a playing sequencer's
\* tick returns an event exactly at the clocks that are multiples of 5513.
C3_StepLength ==
  /\ samples_per_step(RealSampleRate, InitBpm) = 5513
  /\ dm_samples_per_step(RealSampleRate, InitBpm) = 5513
  /\ \A b \in Banks :
       (last.tick[b].called /\ sequencer[b].playing /\ bpm = InitBpm) =>
         (IsSome(last.tick[b].result) <=> last.tick[b].clock % 5513 = 0)

\* C3 as stated: samples_per_step is 5512 and the boundaries are the multiples
\* of 5512.
C3_AsStated ==
  /\ samples_per_step(RealSampleRate, InitBpm) = 5512
  /\ dm_samples_per_step(RealSampleRate, InitBpm) = 5512
  /\ \A b \in Banks :
       (last.tick[b].called /\ sequencer[b].playing /\ bpm = InitBpm) =>
         (IsSome(last.tick[b].result) <=> last.tick[b].clock % 5512 = 0)

\* the second boundary: a playing sequencer ticked at clock 11026
C3_Witness ==
  /\ last.tick[1].called
  /\ sequencer[1].playing
  /\ bpm = InitBpm
  /\ last.tick[1].clock = 11026
  /\ IsSome(last.tick[1].result)

\* the scenario of C4: a playing 16-step sequencer, only step 0 set, to note
\* 60, at bpm 120 and 44100 Hz
OnlyStepZero(b) ==
  /\ sequencer[b].playing
  /\ sequencer[b].num_steps = 16
  /\ sequencer[b].steps = SetAt(Empty(16), 0, Some(60))
  /\ bpm = InitBpm
  /\ sample_rate = RealSampleRate

\* C4 (as amended): in that scenario tick at clock 0 returns note_on = 60 and
\* note_off = None; tick at clock 5513*16, where the pattern wraps to step 0,
\* returns note_on = 60 and note_off = None (step 15 is empty); tick at clock
\* 5512*16 returns no event.
C4_WrapEvent ==
  \A b \in Banks :
    (last.tick[b].called /\ OnlyStepZero(b)) =>
      /\ last.tick[b].clock = 0 =>
           last.tick[b].result = Some([note_off |-> None, note_on |-> Some(60)])
      /\ last.tick[b].clock = 5513 * 16 =>
           last.tick[b].result = Some([note_off |-> None, note_on |-> Some(60)])
      /\ last.tick[b].clock = 5512 * 16 => last.tick[b].result = None

\* C4 as stated: tick at clock 0 returns note_on = 60 and note_off = None, and
\* tick at clock 5512*16 returns note_off = 60 and note_on = 60.
C4_AsStated ==
  \A b \in Banks :
    (last.tick[b].called /\ OnlyStepZero(b)) =>
      /\ last.tick[b].clock = 0 =>
           last.tick[b].result = Some([note_off |-> None, note_on |-> Some(60)])
      /\ last.tick[b].clock = 5512 * 16 =>
           last.tick[b].result = Some([note_off |-> Some(60), note_on |-> Some(60)])

\* the scenario, ticked at the wrap
C4_Witness ==
  /\ last.tick[1].called
  /\ OnlyStepZero(1)
  /\ last.tick[1].clock = 5513 * 16
  /\ sequencer[1].current_step = 0

----------------------------------------------------------------------------
(* Claims about the voices *)

\* C6: after note_on(n) then note_off(n), with no later note_on(n), repeated
\* generate_sample calls bring the Voice to Off within release * sample_rate
\* samples (plus one) of the note_off; it ends at level exactly 0 and is out of
\* the bank after that call.
C6_ReleaseRunsOut ==
  \A b \in Banks :
    /\ \A v \in voices[b] :
         v.stage = "Release" => v.since_release * 1000 < ReleaseMs * sample_rate + 1000
    /\ \A v \in last.pruned[b] :
         v.stage = "Off" /\ v.level = F32Zero /\ ~HasVoice(voices[b], v.note)

\* C7: note_off(n) and note_off2(n) for a note with no Voice in the bank can
\* always be called and leave the whole engine state unchanged.
C7_NoteOffAbsent ==
  /\ [](\A b \in Banks, n \in NoteInputs : ENABLED NoteOff(b, n))
  /\ [][(last'.op = "note_off" /\ \A o \in last'.off : ~o.had)
          => UNCHANGED <<fixed, sound, saved, engine, app>>]_vars

\* note_off for a note that is not sounding while another note of the bank is
C7_Witness ==
  /\ last.op = "note_off"
  /\ last.off = {[bank |-> 1, note |-> 60, had |-> FALSE]}
  /\ voices[1] # {}

\* C8: the stage of a Voice only moves forward along Attack, Decay, Sustain,
\* Release, Off: release() takes every Voice that is not Off to Release, no
\* operation takes a Voice to an earlier stage, and an Off Voice stays Off,
\* release() included.
C8_StageOrder ==
  IsSome(last.voice) =>
    LET before == Unwrap(last.voice)
        after == Unwrap(voice)
    IN /\ Rank(after.stage) >= Rank(before.stage)
       /\ (last.op = "release" /\ before.stage # "Off") => after.stage = "Release"
       /\ before.stage = "Off" => after.stage = "Off"

\* release() was called on an Off Voice
C8_Witness ==
  /\ last.op = "release"
  /\ IsSome(last.voice)
  /\ Unwrap(last.voice).stage = "Off"
  /\ Unwrap(voice).stage = "Off"

\* C9: a bank never holds two Voices of one note, and a note-on for a note
\* (from a live key or from a sequencer step) leaves the bank with a fresh
\* Voice for it: in Attack at level 0 after a key press, and that Voice
\* rendered once after the generate_sample call that made it.
C9_OneVoicePerNote ==
  \A b \in Banks :
    /\ \A v, w \in voices[b] : v.note = w.note => v = w
    /\ \A r \in last.inserted[b] :
         LET now == {v \in voices[b] : v.note = r.note}
         IN IF last.op = "generate_sample"
            THEN now = {next_sample(NewVoice(r.note), sample_rate)}
            ELSE /\ Cardinality(now) = 1
                 /\ \A v \in now : /\ v.stage = "Attack"
                                    /\ v.level = F32Zero
                                    /\ v.release_level = F32Zero

\* a sequencer step retriggers a note whose key is being held
C9_Witness ==
  /\ last.op = "generate_sample"
  /\ pressed_keys # {}
  /\ \E r \in last.inserted[1] : r.had

----------------------------------------------------------------------------
(* Claims about the drum machine *)

\* C5: while the drum machine plays with bpm and swing held constant, every
\* step window fires exactly once, an even-indexed step at phase 0 and an
\* odd-indexed step at phase round(swing * samples_per_step) of its own window;
\* with swing 0.25 and samples_per_step 5512 the odd-step offset is 1378.
C5_FiresOncePerWindow ==
  /\ (drum_log.open /\ drum_log.done) => drum_log.count = 1
  /\ (drum_log.open /\ drum_log.fired) =>
       drum_log.phase = IF drum_log.step % 2 = 1
                        THEN RoundDiv(drum_log.swing * drum_log.sps, 100) ELSE 0
  /\ RoundDiv(25 * 5512, 100) = 1378

\* the steps of a track that are active, and the distance from an active step
\* to the next active one, cyclically
ActiveSteps(steps) == {i \in 0..(Len(steps) - 1) : At(steps, i) = 100}
GapAfter(steps, a) ==
  CHOOSE d \in 1..Len(steps) :
    /\ ((a + d) % Len(steps)) \in ActiveSteps(steps)
    /\ \A e \in 1..(d - 1) : ((a + e) % Len(steps)) \notin ActiveSteps(steps)

\* C10: euclidean_fill(track, k) on a pattern of n steps leaves exactly
\* min(k, n) steps at 100 and the others at 0; step i is active exactly when
\* the bucket overflows there, i.e. when (i+1)*k div n exceeds i*k div n; the
\* cyclic gaps between consecutive active steps differ by at most one; and
\* k = 4, n = 16 gives the steps 3, 7, 11, 15.
C10_EuclideanFill ==
  (IsSome(last.fill) /\ InRange(drum_machine.tracks, Unwrap(last.fill).track)) =>
    LET n == drum_machine.num_steps
        k == Min(Unwrap(last.fill).k, n)
        steps == At(drum_machine.tracks, Unwrap(last.fill).track).steps
    IN /\ Len(steps) = n
       /\ Cardinality(ActiveSteps(steps)) = k
       /\ \A i \in 0..(n - 1) :
            /\ At(steps, i) \in {0, 100}
            /\ At(steps, i) = 100 <=> ((i + 1) * k) \div n > (i * k) \div n
       /\ \A a, b \in ActiveSteps(steps) : GapAfter(steps, a) - GapAfter(steps, b) <= 1
       /\ (n = 16 /\ k = 4) => ActiveSteps(steps) = {3, 7, 11, 15}

\* four hits over sixteen steps
C10_Witness ==
  /\ last.fill = Some([track |-> 0, k |-> 4])
  /\ drum_machine.num_steps = 16
  /\ ActiveSteps(At(drum_machine.tracks, 0).steps) = {3, 7, 11, 15}

----------------------------------------------------------------------------
(* Claims about the effects, under SpecFx *)

\* C11: a disabled Reverb, Delay or Distortion returns exactly 0 from process
\* for every input sample; a disabled BiquadFilter returns its input
\* unchanged; an EffectChain with no effects returns its input unchanged.
C11_DisabledBypass ==
  IsSome(last.fx) =>
    LET c == Unwrap(last.fx)
    IN ~c.enabled =>
         IF c.effect \in {"Reverb", "Delay", "Distortion"}
         THEN c.output = 0
         ELSE c.output = c.input

\* a Distortion that was switched on and off again is given a full-scale
\* sample while the Reverb is on
C11_Witness ==
  /\ IsSome(last.fx)
  /\ Unwrap(last.fx).effect = "Distortion"
  /\ ~Unwrap(last.fx).enabled
  /\ Unwrap(last.fx).input = 1000
  /\ effects.reverb.enabled

----------------------------------------------------------------------------
(* Claims about save and load, under SpecSave *)

\* C12: save followed by load of the saved snapshot restores every persisted
\* field (bpm, octave, scale, both waveforms, both volumes, both sequencers'
\* step count and notes, drum step count, swing, per-track steps, mute and
\* volume, every effect's enabled flag and parameters, the 9 send levels) to
\* its saved value: the snapshot of the state after the load is the file.
C12_RoundTrip ==
  (last.op = "load" /\ last.file = saved) => save_file = Unwrap(saved)

\* the numbers of the engine that load writes, each in its documented range
InDomain ==
  /\ bpm \in MinBpm..MaxBpm
  /\ mixer.volume \in 0..100 /\ mixer.volume2 \in 0..100
  /\ \A r \in Sends : mixer.fx_routing[r] \in 0..100
  /\ drum_machine.swing \in 0..MaxSwing
  /\ \A b \in Banks : sequencer[b].num_steps \in {8, 16, 24, 32}
  /\ drum_machine.num_steps \in {8, 16, 24, 32}
  /\ \A b \in Banks : \A i \in 1..Len(sequencer[b].steps) :
        IsSome(sequencer[b].steps[i]) => Unwrap(sequencer[b].steps[i]) \in 0..127
  /\ \A t \in 1..Len(drum_machine.tracks) :
        /\ drum_machine.tracks[t].volume \in 0..100
        /\ \A i \in 1..Len(drum_machine.tracks[t].steps) :
              drum_machine.tracks[t].steps[i] \in 0..100
  /\ effects.reverb.room_size \in 0..Unit /\ effects.reverb.damping \in 0..Unit
  /\ effects.reverb.mix \in 0..Unit
  /\ effects.delay.time_ms \in 10..1000 /\ effects.delay.feedback \in 0..950
  /\ effects.delay.mix \in 0..Unit
  /\ effects.distortion.drive \in Unit..(10 * Unit)
  /\ effects.distortion.tone \in 0..Unit /\ effects.distortion.level \in 0..Unit
  /\ effects.sidechain.depth \in 0..Unit /\ effects.sidechain.release_ms \in 10..500
  /\ \A f \in {effects.filter1, effects.filter2} :
        f.cutoff \in 80..18000 /\ f.q \in 500..(10 * Unit)

\* C13: after load of any well-formed snapshot every numeric field of the
\* engine is inside its documented domain: bpm in [30, 300], volumes and send
\* levels in [0, 1], swing in [0, 0.5], sequencer and drum step counts in
\* {8, 16, 24, 32}, every sequencer note in 0..127, every drum step
\* probability in 0..100, and every effect parameter in its range.
C13_LoadedInDomain == last.op = "load" => InDomain

\* C14: a load that fails (the file cannot be read or does not parse) leaves
\* the engine, the held keys, the octave, the scale and the cursors exactly as
\* they were; only the status message changes.
C14_FailedLoadKeepsState ==
  [][last'.op = "load_failed" =>
       /\ UNCHANGED <<fixed, engine, sound, pressed_keys, base_octave, saved>>
       /\ \A f \in (DOMAIN ui) \ {"status_msg"} : ui'[f] = ui[f]]_vars

\* a load fails while a key is held, its voice sounds, the step cursor is off
\* 0 and a file was loaded before
C14_Witness ==
  /\ last.op = "load_failed"
  /\ pressed_keys = {"q"}
  /\ voices[1] # {}
  /\ ui.drum_step = 1
  /\ ui.scale_root = 7
  /\ ui.status_msg = "Error"

----------------------------------------------------------------------------
(* Claims about the step and track edits, under SpecEdit *)

\* C15: in every state reachable through step-count changes and loads, every
\* step-edit and track-edit operation (toggle_step, clear_step, step_prob_up /
\* down, toggle_mute, track volume up / down, trigger_now, and the App
\* wrappers drum_prob_up / down, drum_vol_up / down, drum_toggle_mute)
\* completes without failure, and is a no-op when the track or step index is
\* out of range.
C15_EditsNeverFail ==
  IsSome(last.edit) =>
    LET e == Unwrap(last.edit)
    IN /\ ~last.panicked
       /\ (~InRange(e.before.tracks, e.track)
             \/ (e.op \in {"toggle_step", "clear_step", "step_prob_up",
                           "step_prob_down"}
                 /\ ~InRange(At(e.before.tracks, e.track).steps, e.step)))
            => drum_machine = e.before

----------------------------------------------------------------------------
(* Claims about the audio callback, under SpecAudio *)

\* C16: under every interleaving of control-surface operations (load and
\* step-count cycling included) with generate_sample calls, generate_sample
\* never fails: the num_steps of each sequencer and of the drum machine is at
\* least 1, the samples per step used are at least 1, and the step indices
\* read are within the step array.
C16_GenerateSampleNeverFails ==
  /\ ~last.panicked
  /\ ~generate_sample_panics
  /\ drum_machine.num_steps >= 1
  /\ Max(dm_samples_per_step(sample_rate, bpm), 1) >= 1
  /\ \A b \in Banks :
       /\ sequencer[b].num_steps >= 1
       /\ Max(samples_per_step(sample_rate, bpm), 1) >= 1
       /\ \A clock \in 0..MaxClock :
            \A i \in tick_reads([sequencer[b] EXCEPT !.playing = TRUE],
                                sample_rate, bpm, clock) :
              InRange(sequencer[b].steps, i)

\* after a load of step counts 5, 0 and 0 with a 2-entry step array, the
\* callback at clock 0 read step 0 and, as the step before it, step 4 of
\* sequencer 1, step 0 of sequencer 2, and the drum machine fired its one step
C16_Witness ==
  /\ last.op = "generate_sample"
  /\ \A b \in Banks : IsSome(last.tick[b].result)
  /\ last.tick[1].clock = 0
  /\ sequencer[1].num_steps = 5
  /\ sequencer[2].num_steps = 1
  /\ drum_machine.num_steps = 1
  /\ drum_log.fired

----------------------------------------------------------------------------
(* Claims about the drum hits, under SpecHits *)

\* the call of DrumMachine just made, and the drum machine before it
HitRec == Unwrap(last.edit)
HitBefore == HitRec.before
Generated == last.op = "dm_generate_sample"
\* the call was a firing step, and the step it fired
Fired == Generated /\ dm_fires(HitBefore, sample_rate, bpm, HitRec.clock)
HitStep ==
  (HitRec.clock \div Max(dm_samples_per_step(sample_rate, bpm), 1)) % HitBefore.num_steps
HitProb(i) == StepProb(HitBefore.tracks[i], HitStep)
HitTracks == 1..Len(HitBefore.tracks)
\* the voices of a pool after the mixing loop of generate_sample
Aged(vs) == SelectSeq([i \in 1..Len(vs) |-> dv_next_sample(vs[i])], DvAlive)
IsOpenHat(v) == v.kind = "OpenHat"
\* an unmuted closed-hat track has a non-zero probability on the step
ClosedHatSet ==
  \E i \in HitTracks : /\ HitBefore.tracks[i].kind = "ClosedHat"
                        /\ ~HitBefore.tracks[i].muted
                        /\ HitProb(i) > 0
\* track i draws a roll: it is unmuted with a probability in 1..99
Rolls(i) == ~HitBefore.tracks[i].muted /\ HitProb(i) \in 1..99
RollsUpTo(i) == Cardinality({j \in 1..i : Rolls(j)})
\* the k-th value of the probability stream after the seed
RECURSIVE ProbStream(_, _)
ProbStream(seed, k) == IF k = 0 THEN seed ELSE xorshift(ProbStream(seed, k - 1))
RECURSIVE SeedStream(_, _)
SeedStream(seed, k) == IF k = 0 THEN seed ELSE next_seed(SeedStream(seed, k - 1))
RollOf(i) == Mod100(ProbStream(HitBefore.prob_seed, RollsUpTo(i)))
\* track i is to spawn a voice on the step
Spawns(i) ==
  /\ ~HitBefore.tracks[i].muted
  /\ \/ HitProb(i) = 100
     \/ Rolls(i) /\ RollOf(i) < HitProb(i)
SpawnsUpTo(i) == Cardinality({j \in 1..i : Spawns(j)})
\* the voices of before the step that the step and the mixing loop keep
KeptVoices ==
  Aged(IF ClosedHatSet THEN SelectSeq(HitBefore.voices, NotOpenHat) ELSE HitBefore.voices)

\* C17: on a firing drum step where an unmuted closed-hat track has a non-zero
\* probability, every open-hat voice that sounded before the step is removed
\* before any voice is added, so that an open-hat voice spawned on the step is
\* in the pool afterwards and is the only one; on a firing step where no
\* closed-hat track is set to fire, the step removes no voice.
C17_HatChoke ==
  Fired =>
    /\ ClosedHatSet =>
         /\ Len(SelectSeq(drum_machine.voices, IsOpenHat))
              = Cardinality({i \in HitTracks :
                               Spawns(i) /\ HitBefore.tracks[i].kind = "OpenHat"})
         /\ \A i \in 1..Len(drum_machine.voices) :
              IsOpenHat(drum_machine.voices[i]) => drum_machine.voices[i].sample_pos = 1
    /\ ~ClosedHatSet =>
         /\ Len(drum_machine.voices) >= Len(Aged(HitBefore.voices))
         /\ SubSeq(drum_machine.voices, 1, Len(Aged(HitBefore.voices)))
              = Aged(HitBefore.voices)

\* an open hat sounded, the closed hat and the open hat were set on the same
\* step, and the one open hat of the pool is the new one
C17_Witness ==
  /\ Fired
  /\ ClosedHatSet
  /\ \E i \in 1..Len(HitBefore.voices) :
       IsOpenHat(HitBefore.voices[i]) /\ HitBefore.voices[i].sample_pos >= 1
  /\ Len(SelectSeq(drum_machine.voices, IsOpenHat)) = 1

\* C18: on a firing drum step, a muted track or a track with probability 0
\* spawns no voice and draws no roll; an unmuted track with probability 100
\* spawns one voice without a roll; an unmuted track with probability p in
\* 1..99 draws one roll from the probability stream and spawns one voice if
\* and only if roll < p.
C18_RollPerTrack ==
  (Fired /\ \A i \in HitTracks : HitProb(i) <= 100) =>
    LET n == Len(HitBefore.tracks)
        kept == Len(KeptVoices)
    IN /\ drum_machine.prob_seed = ProbStream(HitBefore.prob_seed, RollsUpTo(n))
       /\ drum_machine.seed = SeedStream(HitBefore.seed, SpawnsUpTo(n))
       /\ Len(drum_machine.voices) = kept + SpawnsUpTo(n)
       /\ \A i \in HitTracks :
            Spawns(i) =>
              drum_machine.voices[kept + SpawnsUpTo(i)].kind = HitBefore.tracks[i].kind

\* a step where a roll spawned a voice, a roll spawned none, a track at 100
\* spawned one, and a muted track with a hit spawned none
C18_Witness ==
  /\ Fired
  /\ \E i \in HitTracks : Rolls(i) /\ Spawns(i)
  /\ \E i \in HitTracks : Rolls(i) /\ ~Spawns(i)
  /\ \E i \in HitTracks : HitProb(i) = 100 /\ Spawns(i)
  /\ \E i \in HitTracks : HitProb(i) > 0 /\ HitBefore.tracks[i].muted
  /\ Len(drum_machine.voices) = Len(KeptVoices) + SpawnsUpTo(Len(HitBefore.tracks))

\* C19: trigger_now(i) for a valid track index adds exactly one voice of the
\* track's kind to the pool, whatever the step probabilities, the current
\* step and the playing flag, and removes no voice except the open-hat voices
\* when the kind is closed hat; for an index out of range it changes nothing.
C19_TriggerNowAddsOne ==
  last.op = "trigger_now" =>
    IF InRange(HitBefore.tracks, HitRec.track)
    THEN LET track == At(HitBefore.tracks, HitRec.track)
             kept == IF track.kind = "ClosedHat"
                     THEN SelectSeq(HitBefore.voices, NotOpenHat)
                     ELSE HitBefore.voices
         IN /\ Len(drum_machine.voices) = Len(kept) + 1
            /\ SubSeq(drum_machine.voices, 1, Len(kept)) = kept
            /\ drum_machine.voices[Len(kept) + 1].kind = track.kind
            /\ drum_machine.voices[Len(kept) + 1].sample_pos = 0
    ELSE drum_machine = HitBefore

\* C20: whenever toggle_play switches the drum machine from playing to
\* stopped, the pool is empty right after; while the machine is stopped,
\* generate_sample spawns no voice.
C20_StopClearsPool ==
  /\ (last.op = "dm_toggle_play" /\ HitBefore.playing) =>
       ~drum_machine.playing /\ drum_machine.voices = << >>
  /\ (Generated /\ ~HitBefore.playing) =>
       /\ drum_machine.voices = Aged(HitBefore.voices)
       /\ drum_machine.seed = HitBefore.seed
       /\ drum_machine.prob_seed = HitBefore.prob_seed

\* the machine was stopped while voices sounded
C20_Witness ==
  /\ last.op = "dm_toggle_play"
  /\ HitBefore.playing
  /\ Len(HitBefore.voices) >= 2
  /\ drum_machine.voices = << >>

----------------------------------------------------------------------------
(* Claims about the life of a drum voice, under SpecDecay *)

\* C21: every DrumVoice added to the pool is rendered for exactly
\* ceil(duration(kind) * sample_rate) generate_sample calls and is removed
\* from the pool at the end of the last of them, with no release gesture.
C21_RenderedForDuration ==
  Generated =>
    \A i \in 1..Len(HitBefore.voices) :
      LET v == HitBefore.voices[i]
          n == DurSamplesExact(v.kind, sample_rate)
          stays == \E j \in 1..Len(drum_machine.voices) :
                     drum_machine.voices[j] = dv_next_sample(v)
      IN /\ v.sample_pos < n
         /\ stays <=> v.sample_pos + 1 < n

----------------------------------------------------------------------------
(* Claims about the controls of a Sequencer, under SpecSeq *)

\* C22: Sequencer::toggle_play flips the playing flag and changes nothing
\* else; when the result is paused it returns the note stored at current_step
\* (None if that step is empty), and when the result is playing it returns
\* None.  The returned note is the one seq_toggle_play releases.
C22_TogglePlay ==
  [][last'.op = "seq_toggle_play" =>
       \E b \in Banks :
         LET sq == sequencer[b]
             held == IF InRange(sq.steps, sq.current_step)
                     THEN At(sq.steps, sq.current_step) ELSE None
             returned == {r.note : r \in last'.off}
         IN /\ sequencer' = [sequencer EXCEPT ![b].playing = ~sq.playing]
            /\ \A r \in last'.off : r.bank = b
            /\ sq.playing => returned = (IF IsSome(held) THEN {Unwrap(held)} ELSE {})
            /\ ~sq.playing => returned = {}]_vars

\* a sequencer that stood on step 15, which holds note 60, was paused and
\* returned 60
C22_Witness ==
  /\ last.op = "seq_toggle_play"
  /\ ~sequencer[1].playing
  /\ sequencer[1].current_step = 15
  /\ {r.note : r \in last.off} = {60}

----------------------------------------------------------------------------
(* Claims about step-count cycling, under SpecCycle *)

\* a step array after cycling from old_n to new_n steps: new_n long, the
\* entries below min(old_n, new_n) kept, every other slot empty
CycledSteps(old, new, old_n, new_n, empty) ==
  /\ Len(new) = new_n
  /\ \A i \in 0..(new_n - 1) :
       At(new, i) = IF i < Min(old_n, new_n) /\ InRange(old, i)
                    THEN At(old, i) ELSE empty

CycledCursor(old, new, new_n) == new = IF old >= new_n THEN 0 ELSE old

\* C23: cycle_num_steps on a sequencer or on the drum machine moves num_steps
\* along 8, 16, 24, 32, 8 (any other value goes to 8), resizes every step
\* array to the new length, keeping the entries below min(old, new) and
\* filling the new slots with empty (None for notes, 0 for probabilities),
\* and sets current_step to 0 if and only if it was >= the new length.
C23_CycleNumSteps ==
  [][/\ last'.op = "seq_cycle_steps" =>
          \E b \in Banks :
            LET old == sequencer[b]
                new == sequencer'[b]
                n == NextNumSteps(old.num_steps)
            IN /\ new.num_steps = n
               /\ n \in {8, 16, 24, 32}
               /\ CycledSteps(old.steps, new.steps, old.num_steps, n, None)
               /\ CycledCursor(old.current_step, new.current_step, n)
               /\ new.playing = old.playing
     /\ last'.op = "drum_cycle_steps" =>
          LET old == drum_machine
              new == drum_machine'
              n == NextNumSteps(old.num_steps)
          IN /\ new.num_steps = n
             /\ n \in {8, 16, 24, 32}
             /\ Len(new.tracks) = Len(old.tracks)
             /\ \A i \in 1..Len(old.tracks) :
                  CycledSteps(old.tracks[i].steps, new.tracks[i].steps,
                              old.num_steps, n, 0)
             /\ CycledCursor(old.current_step, new.current_step, n)]_vars

----------------------------------------------------------------------------
(* Claims about pruning, under SpecPrune *)

\* C24: after every generate_sample call neither melodic bank holds a Voice
\* in stage Off and the drum pool holds no DrumVoice whose elapsed sample
\* count has reached its duration; no other operation produces such a voice,
\* so this holds in every state.
C24_NoDeadVoices ==
  /\ \A b \in Banks : \A v \in voices[b] : v.stage # "Off"
  /\ \A i \in 1..Len(drum_machine.voices) :
       drum_machine.voices[i].sample_pos < drum_machine.voices[i].dur_samples

\* a generate_sample call that pruned a finished Voice while a kick, seven
\* samples old and one call from its end, was in the pool
C24_Witness ==
  /\ last.op = "generate_sample"
  /\ last.pruned[1] # {}
  /\ \E i \in 1..Len(drum_machine.voices) :
       /\ drum_machine.voices[i].kind = "Kick"
       /\ drum_machine.voices[i].sample_pos = 7

----------------------------------------------------------------------------
(* Phase lock                                                               *)

\* the step the clock of the last generate_sample call stands on, for a
\* pattern of n steps
ClockStep(n) ==
  ((master_clock - 1) \div Max(samples_per_step(sample_rate, bpm), 1)) % n
Rendered == last.op = "generate_sample" /\ ~last.panicked

\* C25: after every generate_sample call each playing sequencer's
\* current_step and the drum machine's current_step equal
\* (clock / samples_per_step) mod their own num_steps for the clock of that
\* call, so any two of them with the same num_steps show the same step,
\* also after one of them was paused and resumed
C25_PhaseLock ==
  Rendered =>
    /\ \A b \in Banks :
         sequencer[b].playing => sequencer[b].current_step = ClockStep(sequencer[b].num_steps)
    /\ drum_machine.current_step =
         ((master_clock - 1) \div Max(dm_samples_per_step(sample_rate, bpm), 1))
           % drum_machine.num_steps
    /\ \A b \in Banks :
         sequencer[b].playing /\ sequencer[b].num_steps = drum_machine.num_steps
           => sequencer[b].current_step = drum_machine.current_step
    /\ sequencer[1].playing /\ sequencer[2].playing
         /\ sequencer[1].num_steps = sequencer[2].num_steps
           => sequencer[1].current_step = sequencer[2].current_step

\* sequencer 1, paused on step 0 while the clock went on, has been resumed
\* and is back on step 2 with the drum machine, both of 8 steps
C25_Witness ==
  /\ Rendered /\ master_clock = 3
  /\ sequencer[1].playing /\ last.tick[1].cur_before = 0
  /\ sequencer[1].num_steps = 8 /\ drum_machine.num_steps = 8
  /\ sequencer[1].current_step = 2 /\ drum_machine.current_step = 2

----------------------------------------------------------------------------
(* The parameter controls of the control surface: the volumes, bpm, swing,  *)
(* track volume, and the inc / dec / route-toggle of the selected effect    *)
(* parameter.  The cursor is placed, then up to MaxTurns controls are used  *)

\* the cursor moves of a behaviour before its controls are used
MaxMoves == 6
\* the controls a behaviour uses after the cursor was placed
MaxTurns == 3

\* App::volume_up / volume_down / synth2_vol_up / synth2_vol_down
volume_up(m) == [m EXCEPT !.volume = Min(@ + 5, 100)]
volume_down(m) == [m EXCEPT !.volume = Max(@ - 5, 0)]
synth2_vol_up(m) == [m EXCEPT !.volume2 = Min(@ + 5, 100)]
synth2_vol_down(m) == [m EXCEPT !.volume2 = Max(@ - 5, 0)]

BpmUpUnclamped(b) == b + 5
\* App::bpm_up / bpm_down
bpm_up(b) == Clamp(b + 5, MinBpm, MaxBpm)
bpm_down(b) == Clamp(b - 5, MinBpm, MaxBpm)

\* the send level the routing column ri of effect row sel stands for
SendName(sel, ri) ==
  (CASE ri = 0 -> "s1" [] ri = 1 -> "s2" [] ri = 2 -> "dr")
    \o (CASE sel = 0 -> "_reverb" [] sel = 1 -> "_delay" [] sel = 2 -> "_dist")

\* App::effects_route_toggle on the effects e and the mixer m: <<e, m, reported>>
effects_route_toggle(e, m, sel, par) ==
  IF par < 3 \/ sel >= 4 THEN <<e, m, "kept">>
  ELSE IF sel <= 2
       THEN <<e, [m EXCEPT !.fx_routing[SendName(sel, par - 3)] =
                             IF @ > 50 THEN 0 ELSE 100], "Msg">>
       ELSE IF par = 3 THEN <<[e EXCEPT !.sidechain.duck_s1 = ~@], m, "Msg">>
       ELSE IF par = 4 THEN <<[e EXCEPT !.sidechain.duck_s2 = ~@], m, "Msg">>
       ELSE <<e, m, "Msg">>

\* the cutoff one semitone up or down: cutoff * 1.0595 or cutoff / 1.0595, in Hz
semitone(cutoff, d) ==
  IF d = 1 THEN RoundDiv(cutoff * 10595, 10000) ELSE RoundDiv(cutoff * 10000, 10595)

\* the filter rows of effects_param_inc / effects_param_dec
filter_step(f, param, d) ==
  CASE param = 0 -> [f EXCEPT !.mode = IF d = 1 THEN mode_next(@) ELSE mode_prev(@)]
    [] param = 1 -> [f EXCEPT !.cutoff = Clamp(semitone(@, d), 80, 18000)]
    [] OTHER -> [f EXCEPT !.q = Clamp(@ + d * 100, 500, 10 * Unit)]

\* App::effects_param_inc (d = 1) and effects_param_dec (d = -1): <<e, m, reported>>
param_step(e, m, sel, param, d) ==
  IF param >= 3
  THEN IF sel >= 4 THEN <<e, m, "kept">>
       ELSE IF sel <= 2
            THEN <<e, [m EXCEPT !.fx_routing[SendName(sel, param - 3)] =
                                  Clamp(@ + d * 5, 0, 100)], "Msg">>
            ELSE <<e, m, "Msg">>
  ELSE
    CASE sel = 0 ->
           <<CASE param = 0 -> [e EXCEPT !.reverb.room_size = Clamp(@ + d * 50, 0, Unit)]
               [] param = 1 -> [e EXCEPT !.reverb.damping = Clamp(@ + d * 50, 0, Unit)]
               [] OTHER -> [e EXCEPT !.reverb.mix = Clamp(@ + d * 50, 0, Unit)],
             m, "Msg">>
      [] sel = 1 ->
           <<CASE param = 0 -> [e EXCEPT !.delay.time_ms = Clamp(@ + d * 25, 10, 1000)]
               [] param = 1 -> [e EXCEPT !.delay.feedback = Clamp(@ + d * 50, 0, 950)]
               [] OTHER -> [e EXCEPT !.delay.mix = Clamp(@ + d * 50, 0, Unit)],
             m, "Msg">>
      [] sel = 2 ->
           <<CASE param = 0 -> [e EXCEPT !.distortion.drive =
                                           Clamp(@ + d * 500, Unit, 10 * Unit)]
               [] param = 1 -> [e EXCEPT !.distortion.tone = Clamp(@ + d * 50, 0, Unit)]
               [] OTHER -> [e EXCEPT !.distortion.level = Clamp(@ + d * 50, 0, Unit)],
             m, "Msg">>
      [] sel = 3 ->
           CASE param = 0 ->
                  <<[e EXCEPT !.sidechain.depth = Clamp(@ + d * 50, 0, Unit)], m, "Msg">>
             [] param = 1 ->
                  <<[e EXCEPT !.sidechain.release_ms = Clamp(@ + d * 25, 10, 500)],
                    m, "Msg">>
             [] OTHER -> <<e, m, "">>
      [] sel = 4 -> <<[e EXCEPT !.filter1 = filter_step(@, param, d)], m, "Msg">>
      [] sel = 5 -> <<[e EXCEPT !.filter2 = filter_step(@, param, d)], m, "Msg">>
      [] OTHER -> <<e, m, "">>
effects_param_inc(e, m, sel, param) == param_step(e, m, sel, param, 1)
effects_param_dec(e, m, sel, param) == param_step(e, m, sel, param, -1)

\* App::effects_param_left / effects_param_right
EffectsParamLeft ==
  UiOp([ui EXCEPT !.effects_param = IF @ = 0 THEN 5 ELSE @ - 1], "effects_param_left")
EffectsParamRight == UiOp([ui EXCEPT !.effects_param = (@ + 1) % 6], "effects_param_right")

KnobOps ==
  {"volume_up", "volume_down", "synth2_vol_up", "synth2_vol_down", "bpm_up", "bpm_down",
   "drum_swing_up", "drum_swing_down", "drum_vol_up", "drum_vol_down",
   "effects_route_toggle", "effects_param_inc", "effects_param_dec"}
CursorOps ==
  {"effects_sel_up", "effects_sel_down", "effects_param_left", "effects_param_right"}

\* the operations made since the cursor was placed
Turns == IF last.op \in {"none", "load"} \cup CursorOps THEN 0 ELSE last.calls
Placing == last.op \in {"none", "load"} \cup CursorOps /\ last.calls < MaxMoves

\* what the control named op leaves: <<bpm, drum machine, effects, mixer, reported>>
knob(op) ==
  LET sel == ui.effects_sel
      par == ui.effects_param
      fx == CASE op = "effects_route_toggle" -> effects_route_toggle(effects, mixer, sel, par)
              [] op = "effects_param_inc" -> effects_param_inc(effects, mixer, sel, par)
              [] op = "effects_param_dec" -> effects_param_dec(effects, mixer, sel, par)
              [] op = "volume_up" -> <<effects, volume_up(mixer), "Msg">>
              [] op = "volume_down" -> <<effects, volume_down(mixer), "Msg">>
              [] op = "synth2_vol_up" -> <<effects, synth2_vol_up(mixer), "Msg">>
              [] op = "synth2_vol_down" -> <<effects, synth2_vol_down(mixer), "Msg">>
              [] OTHER -> <<effects, mixer, "Msg">>
  IN <<CASE op = "bpm_up" -> bpm_up(bpm) [] op = "bpm_down" -> bpm_down(bpm)
         [] OTHER -> bpm,
       CASE op = "drum_swing_up" -> swing_up(drum_machine)
         [] op = "drum_swing_down" -> swing_down(drum_machine)
         [] op = "drum_vol_up" -> track_volume_up(drum_machine, ui.drum_track)
         [] op = "drum_vol_down" -> track_volume_down(drum_machine, ui.drum_track)
         [] OTHER -> drum_machine,
       fx[1], fx[2], fx[3]>>

\* one of the parameter controls is used
Knob(op) ==
  /\ bpm' = knob(op)[1]
  /\ drum_machine' = knob(op)[2]
  /\ effects' = knob(op)[3]
  /\ mixer' = knob(op)[4]
  /\ ui' = IF knob(op)[5] = "kept" THEN ui ELSE [ui EXCEPT !.status_msg = knob(op)[5]]
  /\ last' = [NoLast EXCEPT !.op = op, !.calls = Turns + 1]
  /\ drum_log' = Disturbed
  /\ UNCHANGED <<fixed, saved, master_clock, sequencer, voices, pressed_keys, base_octave>>

\* files written by hand that parse, with every parameter just inside, or
\* outside, an end of its range
KnobFiles ==
  { [DefaultSaveFile EXCEPT
       !.bpm = 298, !.volume = 98, !.volume2 = 103,
       !.drums = [num_steps |-> 16, swing |-> 48,
                  tracks |-> [i \in 1..8 |-> [DefaultTrackSaves[i] EXCEPT !.volume = 97]]],
       !.reverb = [enabled |-> TRUE, room_size |-> 980, damping |-> 1200, mix |-> 960],
       !.delay = [enabled |-> TRUE, time_ms |-> 990, feedback |-> 930, mix |-> 970],
       !.distortion = [enabled |-> TRUE, drive |-> 9800, tone |-> 990, level |-> 980],
       !.routing = [r \in Sends |-> 98]],
    [DefaultSaveFile EXCEPT
       !.bpm = 32, !.volume = 2, !.volume2 = 3,
       !.drums = [num_steps |-> 16, swing |-> 2,
                  tracks |-> [i \in 1..8 |-> [DefaultTrackSaves[i] EXCEPT !.volume = 3]]],
       !.reverb = [enabled |-> FALSE, room_size |-> 20, damping |-> 10, mix |-> 30],
       !.delay = [enabled |-> FALSE, time_ms |-> 12, feedback |-> 20, mix |-> 40],
       !.distortion = [enabled |-> FALSE, drive |-> 1200, tone |-> 10, level |-> 20],
       !.routing = [r \in Sends |-> 2]] }

NextKnobs ==
  \/ \E sf \in KnobFiles : last.op = "none" /\ Load(sf)
  \/ Placing /\ EffectsSelUp
  \/ Placing /\ EffectsSelDown
  \/ Placing /\ EffectsParamLeft
  \/ Placing /\ EffectsParamRight
  \/ \E op \in KnobOps : Turns < MaxTurns /\ Knob(op)

SpecKnobs == Init /\ [][NextKnobs]_vars

\* C26: after any sequence of control-surface parameter operations every
\* parameter is in its documented range: the 9 send levels, both volumes,
\* the track volumes and the reverb, distortion and delay mix-type
\* parameters in [0, 1], bpm in [30, 300], swing in [0, 0.5], the delay
\* time in [10, 1000] ms, the delay feedback in [0, 0.95] and the distortion
\* drive in [1, 10]
C26_ParametersInRange ==
  /\ \A r \in Sends : mixer.fx_routing[r] \in 0..100
  /\ mixer.volume \in 0..100 /\ mixer.volume2 \in 0..100
  /\ \A i \in 1..Len(drum_machine.tracks) : drum_machine.tracks[i].volume \in 0..100
  /\ effects.reverb.room_size \in 0..Unit /\ effects.reverb.damping \in 0..Unit
  /\ effects.reverb.mix \in 0..Unit /\ effects.delay.mix \in 0..Unit
  /\ effects.distortion.tone \in 0..Unit /\ effects.distortion.level \in 0..Unit
  /\ bpm \in MinBpm..MaxBpm
  /\ drum_machine.swing \in 0..MaxSwing
  /\ effects.delay.time_ms \in 10..1000
  /\ effects.delay.feedback \in 0..950
  /\ effects.distortion.drive \in Unit..(10 * Unit)

\* bpm 298 was stepped up and stopped at 300, then the delay feedback 0.93
\* was stepped up and stopped at 0.95
C26_Witness ==
  /\ last.op = "effects_param_inc" /\ last.calls = 2
  /\ ui.effects_sel = 1 /\ ui.effects_param = 1
  /\ effects.delay.feedback = 950 /\ bpm = MaxBpm

----------------------------------------------------------------------------
(* A step boundary at the sample rate of the program: a pattern is loaded   *)
(* at the fastest tempo, the sequencers are started and the audio callback  *)
(* runs from clock 0 across the boundary between step 0 and step 1          *)

\* the callbacks of a behaviour: one step of 2205 samples and two more
CrossSamples == 2207

\* files written by hand that parse, at 300 bpm: steps 0 and 1 of sequencer 1
\* hold the same note, or two notes, or a note and nothing
CrossSteps(a, b) == [i \in 1..16 |-> IF i = 1 THEN a ELSE IF i = 2 THEN b ELSE None]
CrossFiles ==
  { [DefaultSaveFile EXCEPT
       !.bpm = 300, !.seq1 = [num_steps |-> 16, steps |-> CrossSteps(Some(60), p[1])],
       !.seq2 = [num_steps |-> 16, steps |-> CrossSteps(p[2], p[2])]] :
      p \in {<<Some(60), None>>, <<Some(62), Some(64)>>, <<None, Some(60)>>} }

Crossing == master_clock < CrossSamples /\ generate_sample

NextCross ==
  \/ \E sf \in CrossFiles : last.op = "none" /\ Load(sf)
  \/ \E b \in Banks : master_clock = 0 /\ SeqTogglePlay(b)
  \/ Crossing

SpecCross == InitHits /\ [][NextCross]_vars

\* C27: when a playing sequencer crosses a boundary between two consecutive
\* steps that hold the same note n, the note-off is applied before the
\* note-on, so after that generate_sample call the bank holds a Voice for n
\* that is in Attack, not in Release
C27_SameNoteRetriggered ==
  Rendered =>
    \A b \in Banks :
      LET ev == last.tick[b].result
      IN IsSome(ev) /\ IsSome(Unwrap(ev).note_on) /\ Unwrap(ev).note_off = Unwrap(ev).note_on
           => /\ \E v \in voices[b] : v.note = Unwrap(Unwrap(ev).note_on)
              /\ \A v \in voices[b] :
                   v.note = Unwrap(Unwrap(ev).note_on) => v.stage = "Attack"

\* sequencer 1 went from step 0 to step 1, both holding note 60, while the
\* voice of step 0 was still sounding
C27_Witness ==
  /\ Rendered /\ master_clock = 2206 /\ sequencer[1].current_step = 1
  /\ last.tick[1].result = Some([note_off |-> Some(60), note_on |-> Some(60)])
  /\ last.inserted[1] = {[note |-> 60, had |-> TRUE]}
  /\ \E v \in voices[1] : v.note = 60 /\ v.stage = "Attack"

----------------------------------------------------------------------------
(* The probability stream *)

\* what the rolls and the firing of a step are computed from
RollState(dm) ==
  [tracks |-> dm.tracks, num_steps |-> dm.num_steps, current_step |-> dm.current_step,
   playing |-> dm.playing, swing |-> dm.swing, prob_seed |-> dm.prob_seed]
\* the drum machine with the timbre stream and the pool of a machine that
\* was never triggered
Untriggered(dm) ==
  [dm EXCEPT !.seed = NewDrumMachine.seed, !.voices = << >>, !.kick_triggered = FALSE]
KindsOf(vs) == [i \in 1..Len(vs) |-> vs[i].kind]
\* the kinds of the voices the last generate_sample call spawned, in order
SpawnedKinds ==
  LET old == IF Fired THEN Len(KeptVoices) ELSE Len(Aged(HitBefore.voices))
  IN KindsOf(SubSeq(drum_machine.voices, old + 1, Len(drum_machine.voices)))
\* the same call on the machine that was never triggered
UntriggeredCall ==
  dm_generate_sample(Untriggered(HitBefore), sample_rate, bpm, HitRec.clock)

\* C28: prob_seed is changed only by a probability roll for a step with
\* 0 < p < 100, and is left unchanged by trigger_now, by spawning voices and
\* by rendering voice noise; the rolls and the steps the sequencer fires are
\* those of the run without the live trigger_now calls
C28_ProbStreamIsolated ==
  /\ last.op = "load" => drum_machine.prob_seed = NewDrumMachine.prob_seed
  /\ IsSome(last.edit) =>
       /\ drum_machine.prob_seed # HitBefore.prob_seed
            => Fired /\ \E i \in HitTracks : Rolls(i)
       /\ Generated =>
            /\ drum_machine.prob_seed
                 = ProbStream(HitBefore.prob_seed,
                              IF Fired THEN RollsUpTo(Len(HitBefore.tracks)) ELSE 0)
            /\ RollState(drum_machine) = RollState(UntriggeredCall)
            /\ SpawnedKinds = KindsOf(UntriggeredCall.voices)
       /\ HitRec.op = "trigger_now" => RollState(drum_machine) = RollState(HitBefore)

\* the first firing step of a run, after live triggers moved the timbre
\* stream and filled the pool: a roll spawned a voice and a roll spawned none
C28_Witness ==
  /\ Fired
  /\ HitBefore.prob_seed = NewDrumMachine.prob_seed
  /\ HitBefore.seed # NewDrumMachine.seed /\ HitBefore.voices # << >>
  /\ \E i \in HitTracks : Rolls(i) /\ Spawns(i)
  /\ \E i \in HitTracks : Rolls(i) /\ ~Spawns(i)
  /\ drum_machine.prob_seed # HitBefore.prob_seed

----------------------------------------------------------------------------
(* Effects that are switched on again *)

BufCleared(buf) == \A i \in DOMAIN buf.data : buf.data[i] = 0
\* the state Reverb::reset, Delay::reset and BiquadFilter::reset_state leave
ReverbCleared(r) ==
  /\ \A i \in 1..Len(r.combs) : BufCleared(r.combs[i].buf) /\ r.combs[i].damp_store = 0
  /\ \A i \in 1..Len(r.allpasses) : BufCleared(r.allpasses[i].buf)
DelayCleared(d) == BufCleared(d.buf)
FilterCleared(f) == f.x1 = 0 /\ f.x2 = 0 /\ f.y1 = 0 /\ f.y2 = 0
FiltersClearedOnEnable ==
  [][/\ ~effects.filter1.enabled /\ effects'.filter1.enabled
          => FilterCleared(effects'.filter1)
     /\ ~effects.filter2.enabled /\ effects'.filter2.enabled
          => FilterCleared(effects'.filter2)]_vars

\* C29: whenever Reverb, Delay or a BiquadFilter goes from disabled to
\* enabled, its delay-line buffers and filter history are all zero when it
\* processes its first sample after being enabled, whatever it processed
\* before it was disabled
C29_ClearedOnEnable ==
  [][/\ ~effects.reverb.enabled /\ effects'.reverb.enabled
          => ReverbCleared(effects'.reverb)
     /\ ~effects.delay.enabled /\ effects'.delay.enabled
          => DelayCleared(effects'.delay)
     /\ ~effects.filter1.enabled /\ effects'.filter1.enabled
          => FilterCleared(effects'.filter1)
     /\ ~effects.filter2.enabled /\ effects'.filter2.enabled
          => FilterCleared(effects'.filter2)]_vars

----------------------------------------------------------------------------
(* Filter 1 under the control surface, at the sample rate of the program:   *)
(* the cursor is moved to its row and to one of its parameters, then the    *)
(* filter is switched, the parameter is stepped and samples are filtered,   *)
(* in any order                                                             *)

\* the operations of a behaviour after the cursor was placed
MaxFilterCalls == 8

OnFilterRow == ui.effects_sel = 4 /\ last.calls < MaxFilterCalls

NextFilter ==
  \/ Placing /\ EffectsSelUp
  \/ Placing /\ EffectsParamRight
  \/ OnFilterRow /\ EffectsOnOff
  \/ OnFilterRow /\ FilterProcess(1000)
  \/ OnFilterRow /\ Knob("effects_param_inc")
  \/ OnFilterRow /\ Knob("effects_param_dec")

SpecFilter == InitHits /\ [][NextFilter]_vars

Coefficients(f) == <<f.b0, f.b1, f.b2, f.a1, f.a2>>
Triple(f) == <<f.cutoff, f.q, f.mode>>
Recorded(f) == <<f.last_cutoff, f.last_q, f.last_mode>>
\* the sample an enabled filter returns for x when it filters with the
\* coefficients of g
Filtered(f, g, x) ==
  Mul(g.b0, x) + Mul(g.b1, f.x1) + Mul(g.b2, f.x2) - Mul(g.a1, f.y1) - Mul(g.a2, f.y2)

\* C30: BiquadFilter::process on an enabled filter recomputes the
\* coefficients if and only if the current (cutoff, q, mode) differs from the
\* triple recorded at the last computation, so every sample filtered while
\* enabled uses coefficients derived from the current (cutoff, q, mode),
\* including the first sample after parameters were changed while the
\* filter was disabled
C30_LazyRecompute ==
  [][(last'.op = "process" /\ Unwrap(last'.fx).effect = "BiquadFilter"
        /\ effects.filter1.enabled)
       => LET f == effects.filter1
              x == Unwrap(last'.fx).input
          IN /\ Unwrap(last'.fx).output = Filtered(f, recompute(f), x)
             /\ effects'.filter1.y1 = Filtered(f, recompute(f), x)
             /\ Coefficients(effects'.filter1) = Coefficients(recompute(f))
             /\ Recorded(effects'.filter1) = Triple(f)
             /\ Triple(effects'.filter1) = Triple(f)
             /\ Recorded(f) = Triple(f)
                  => Coefficients(effects'.filter1) = Coefficients(f)]_vars

\* the first sample filtered since the filter was switched on, with the mode
\* stepped to high-pass since the last computation: the coefficients are
\* no longer those of the constructor
C30_Witness ==
  /\ last.op = "process" /\ Unwrap(last.fx).effect = "BiquadFilter"
  /\ Unwrap(last.fx).enabled
  /\ effects.filter1.x2 = 0 /\ effects.filter1.y2 = 0
  /\ effects.filter1.mode = "HighPass"
  /\ Coefficients(effects.filter1) # Coefficients(NewBiquadFilter(sample_rate))

----------------------------------------------------------------------------
(* Effects that are switched off *)

\* C31: process on a disabled Reverb, Delay, Distortion or BiquadFilter
\* leaves all of the effect's internal state unchanged: buffers, read and
\* write positions, damping store, filter history and cached coefficients
\* are the same after the call as before
C31_DisabledKeepsState ==
  [][(last'.op = "process" /\ ~Unwrap(last'.fx).enabled)
       => LET name == Unwrap(last'.fx).effect
          IN /\ name = "Reverb" => effects'.reverb = effects.reverb
             /\ name = "Delay" => effects'.delay = effects.delay
             /\ name = "Distortion" => effects'.distortion = effects.distortion
             /\ name = "BiquadFilter" => effects'.filter1 = effects.filter1]_vars

\* a Delay that recorded a sample while it was on is given a sample after it
\* was switched off
C31_Witness ==
  /\ last.op = "process" /\ Unwrap(last.fx).effect = "Delay"
  /\ ~Unwrap(last.fx).enabled /\ Unwrap(last.fx).input = 1000
  /\ ~DelayCleared(effects.delay) /\ effects.delay.write = 1

----------------------------------------------------------------------------
(* The kick flag *)

\* the audio callback with a pattern written at the cursor: hits are put on
\* steps 0 and 1 of the kick and of the snare, the drum machine is started
\* and stopped
NextKick ==
  \/ GenerateSample
  \/ DrumTogglePlay
  \/ MoreEdits /\ ui.drum_step < 1 /\ DrumStepRight
  \/ MoreEdits /\ ui.drum_track < 1 /\ DrumTrackDown
  \/ MoreEdits /\ AppDrumToggleStep

SpecKick == Init /\ [][NextKick]_vars

\* a kick voice spawned by the call that just returned: it was rendered once
KickFired(dm) ==
  \E i \in 1..Len(dm.voices) : dm.voices[i].kind = "Kick" /\ dm.voices[i].sample_pos = 1

\* C32: after each Synth::generate_sample, kick_triggered is true exactly
\* when a kick voice fired during that call; it does not stay true on later
\* samples
C32_KickFlagPerSample ==
  [][last'.op = "generate_sample"
       => (drum_machine'.kick_triggered <=> KickFired(drum_machine'))]_vars

----------------------------------------------------------------------------
(* The engine lock.  A handler of App is the sequence of its critical       *)
(* sections: each self.synth.lock() of its body, with what runs while the   *)
(* guard lives and whether the guard is dropped before the next lock().     *)
(* The body of a section is the action of the handler, run under the lock;  *)
(* a section that only reads leaves the engine as it is                     *)

\* handlers the control thread runs in a behaviour
MaxHandlers == 3

Section(work, arg) == [work |-> work, arg |-> arg, drop |-> TRUE]

\* a drum_toggle_mute that binds its first guard to a name and still holds
\* it at the second lock()
ToggleMuteKeepsGuard ==
  <<[work |-> "drum_toggle_mute", arg |-> "", drop |-> FALSE],
    Section("read", ""), Section("read", "")>>

\* App::key_press, App::seq_toggle_play, App::seq_cycle_steps: one guard
key_press_sections(key) == <<Section("key_press", key)>>
seq_toggle_play_sections == <<Section("seq_toggle_play", "")>>
seq_cycle_steps_sections == <<Section("seq_cycle_steps", "")>>
\* App::drum_toggle_mute: three temporaries, each dropped at the end of its
\* statement
drum_toggle_mute_sections ==
  <<Section("drum_toggle_mute", ""), Section("read", ""), Section("read", "")>>
\* App::drum_toggle_play: two temporaries
drum_toggle_play_sections == <<Section("drum_toggle_play", ""), Section("read", "")>>

\* App::release_all: key_release for every pressed key, each with a guard of
\* its own (the keys pressed here all map to a note)
RECURSIVE release_all_sections(_)
release_all_sections(keys) ==
  IF keys = {} THEN << >>
  ELSE LET k == CHOOSE x \in keys : TRUE
       IN <<Section("key_release", k)>> \o release_all_sections(keys \ {k})

\* App::load of a file that parses: release_all, then one block
load_sections(keys) == release_all_sections(keys) \o <<Section("load", "")>>

\* the handlers the control thread runs
sections(op, keys) ==
  CASE op = "key_press" -> key_press_sections("q")
    [] op = "seq_toggle_play" -> seq_toggle_play_sections
    [] op = "seq_cycle_steps" -> seq_cycle_steps_sections
    [] op = "drum_toggle_mute" -> drum_toggle_mute_sections
    [] op = "drum_toggle_play" -> drum_toggle_play_sections
    [] op = "load" -> load_sections(keys)

LockedOps ==
  {"key_press", "seq_toggle_play", "seq_cycle_steps", "drum_toggle_mute",
   "drum_toggle_play", "load"}

\* a file with a note on step 0 of sequencer 1 and a muted kick
LockFiles ==
  { [DefaultSaveFile EXCEPT
       !.seq1 = [num_steps |-> 8, steps |-> SetAt(Empty(8), 0, Some(60))],
       !.drums = [num_steps |-> 8, swing |-> 0,
                  tracks |-> [DefaultTrackSaves EXCEPT ![1].muted = TRUE]]] }

\* a guard was taken and the body of its section has not run yet
Locked == [NoLast EXCEPT !.op = "lock"]
Entered == last.op = "lock"

ThreadStep(t) ==
  /\ threads' = t
  /\ UNCHANGED <<sample_rate, voice, engine, sound, app, saved, last, drum_log>>

ThreadLock(t) ==
  /\ threads' = t
  /\ last' = Locked
  /\ UNCHANGED <<sample_rate, voice, engine, sound, app, saved, drum_log>>

\* the event loop of main calls a handler
CtlCall(op) ==
  /\ threads.ctl.at = "idle"
  /\ threads.calls < MaxHandlers
  /\ op = "key_press" => "q" \notin pressed_keys
  /\ ThreadStep([threads EXCEPT !.calls = @ + 1,
                                 !.ctl = [at |-> "acquire",
                                          todo |-> sections(op, pressed_keys)]])

\* self.synth.lock(): blocks until the Mutex is free
CtlLock ==
  /\ threads.ctl.at = "acquire"
  /\ threads.lock = "free"
  /\ ThreadLock([threads EXCEPT !.lock = "control", !.ctl.at = "inside"])

\* the engine is read without being written
ReadUnderLock ==
  /\ last' = [NoLast EXCEPT !.op = "read"]
  /\ UNCHANGED <<fixed, engine, sound, app, saved, drum_log>>

\* the body of the section the control thread is in
CtlWork ==
  /\ threads.lock = "control"
  /\ threads.ctl.at = "inside"
  /\ Entered
  /\ LET s == Head(threads.ctl.todo)
     IN CASE s.work = "key_press" -> KeyPress(s.arg)
          [] s.work = "key_release" -> KeyRelease(s.arg)
          [] s.work = "seq_toggle_play" -> SeqTogglePlay(1)
          [] s.work = "seq_cycle_steps" -> SeqCycleNumSteps(1)
          [] s.work = "drum_toggle_mute" -> AppDrumToggleMute
          [] s.work = "drum_toggle_play" -> DrumTogglePlay
          [] s.work = "load" -> \E sf \in LockFiles : Load(sf)
          [] s.work = "read" -> ReadUnderLock

\* the section ends: its guard is dropped, unless it is kept for what follows
CtlLeave ==
  /\ threads.ctl.at = "inside"
  /\ ~Entered
  /\ LET s == Head(threads.ctl.todo)
         rest == Tail(threads.ctl.todo)
     IN ThreadStep([threads EXCEPT
                      !.lock = IF s.drop THEN "free" ELSE @,
                      !.ctl = [at |-> IF rest = << >> THEN "idle" ELSE "acquire",
                               todo |-> rest]])

\* the audio thread: the callback locks the Synth, renders and unlocks
AudioWant ==
  /\ threads.audio = "idle"
  /\ master_clock < MaxCallbacks
  /\ ThreadStep([threads EXCEPT !.audio = "waiting"])

AudioLock ==
  /\ threads.audio = "waiting"
  /\ threads.lock = "free"
  /\ ThreadLock([threads EXCEPT !.lock = "audio", !.audio = "inside"])

AudioWork ==
  /\ threads.lock = "audio"
  /\ Entered
  /\ generate_sample

AudioLeave ==
  /\ threads.lock = "audio"
  /\ ~Entered
  /\ ThreadStep([threads EXCEPT !.lock = "free", !.audio = "idle"])

NextLock ==
  \/ \E op \in LockedOps : CtlCall(op)
  \/ CtlLock
  \/ CtlWork
  \/ CtlLeave
  \/ AudioWant
  \/ AudioLock
  \/ AudioWork
  \/ AudioLeave

SpecLock == Init /\ [][NextLock]_vars

\* the control thread runs on while it holds the Mutex: a section has no
\* wait and no I/O in it.  The audio thread blocked in lock() is woken at
\* every unlock, and between two handlers the control thread sleeps in
\* event::poll with the Mutex free (main.rs 70): a thread that waits for a
\* Mutex that is free again and again gets it in the end
SpecLockFair ==
  /\ SpecLock
  /\ WF_vars(CtlWork) /\ WF_vars(CtlLeave)
  /\ SF_vars(AudioLock)

\* the control thread is at a lock() while it holds the guard of an earlier one
SelfDeadlock == threads.ctl.at = "acquire" /\ threads.lock = "control"
\* a handler returned with a guard alive
GuardLeaked == threads.ctl.at = "idle" /\ threads.lock = "control"

----------------------------------------------------------------------------
(* The length of the drum step arrays *)

\* C34: in every reachable state, including after cycle_num_steps,
\* euclidean_fill and load of any well-formed snapshot with any number of
\* tracks, every DrumTrack's step array has num_steps entries
C34_StepArraysFollowNumSteps ==
  \A i \in 1..Len(drum_machine.tracks) :
    Len(drum_machine.tracks[i].steps) = drum_machine.num_steps

----------------------------------------------------------------------------
(* Step probabilities *)

\* a file that parses, with probabilities inside 0..100 and above, up to the
\* largest u8
ProbFiles ==
  { [DefaultSaveFile EXCEPT
       !.drums = [num_steps |-> 8, swing |-> 0,
                  tracks |-> [DefaultTrackSaves EXCEPT
                                ![1].steps = <<0, 80, 101, 230, 231, 255, 0, 0>>]]] }

\* the pattern of a program just started or loaded from a file, then up to
\* MaxEdits of toggle_step, step_prob_up and step_prob_down on track 0
NextProb ==
  \/ \E sf \in ProbFiles : last.op = "none" /\ Load(sf)
  \/ \E st \in 0..5 : MoreEdits /\ DrumEdit("toggle_step", 0, st, FALSE)
  \/ \E st \in 0..5, checked \in BOOLEAN :
       MoreEdits /\ DrumEdit("step_prob_up", 0, st, checked)
  \/ \E st \in 0..5 : MoreEdits /\ DrumEdit("step_prob_down", 0, st, FALSE)

SpecProb == Init /\ [][NextProb]_vars

\* the value the last edit found at its step and the value it left there
ProbBefore ==
  At(At(Unwrap(last.edit).before.tracks, Unwrap(last.edit).track).steps,
     Unwrap(last.edit).step)
ProbAfter ==
  At(At(drum_machine.tracks, Unwrap(last.edit).track).steps, Unwrap(last.edit).step)

StoredInRange ==
  \A i \in 1..Len(drum_machine.tracks) :
    \A j \in 1..Len(drum_machine.tracks[i].steps) :
      drum_machine.tracks[i].steps[j] \in 0..100

ProbStepsAsStated ==
  /\ last.op = "step_prob_up"
       => /\ ~last.panicked
          /\ ProbBefore + 25 <= 255
          /\ ProbAfter = Min(ProbBefore + 25, 100)
  /\ last.op = "step_prob_down"
       => ProbAfter = IF ProbBefore <= 25 THEN 0 ELSE ProbBefore - 25

\* C35: every drum step probability is in 0..100 in every reachable state,
\* and step_prob_up never overflows its 8-bit value: from any stored value
\* step_prob_up yields min(value + 25, 100), and step_prob_down yields 0 when
\* value <= 25 and value - 25 otherwise
C35_ProbabilitiesInRange == StoredInRange /\ ProbStepsAsStated

----------------------------------------------------------------------------
(* The noise state of the drum voices *)

\* the low and the high 16 bits of the product of two 16-bit numbers
Low16(p, q) ==
  LET t0 == p * (q % 256)
      u == p * (q \div 256) + (t0 \div 256)
  IN (u % 256) * 256 + (t0 % 256)
High16(p, q) == (p * (q \div 256) + ((p * (q % 256)) \div 256)) \div 256

\* u32::wrapping_mul and u32::wrapping_add
wrapping_mul(x, y) ==
  <<(High16(x[2], y[2]) + Low16(x[1], y[2]) + Low16(x[2], y[1])) % Half,
    Low16(x[2], y[2])>>
wrapping_add(x, y) ==
  <<(x[1] + y[1] + ((x[2] + y[2]) \div Half)) % Half, (x[2] + y[2]) % Half>>

\* the seed update of a trigger, seed * 1_664_525 + 1_013_904_223, as the
\* pair of its factor and its addend; Then(f, g) is f followed by g
SeedStep == <<(<<25, 26125>>), (<<15470, 62303>>)>>
Then(f, g) == <<wrapping_mul(g[1], f[1]), wrapping_add(wrapping_mul(g[1], f[2]), g[2])>>

\* k seed updates in a row, after the updates of done: twice is 2^i updates
RECURSIVE SeedSteps(_, _, _)
SeedSteps(done, twice, k) ==
  IF k = 0 \/ twice = << >> \/ done = << >> THEN done
  ELSE SeedSteps(IF k % 2 = 1 THEN Then(done, twice) ELSE done, Then(twice, twice),
                 k \div 2)

\* the seed after k triggers
seed_after(seed, k) ==
  LET m == SeedSteps(<<(<<0, 1>>), (<<0, 0>>)>>, SeedStep, k)
  IN wrapping_add(wrapping_mul(m[1], seed), m[2])

\* the numbers of hits played before the behaviour starts
LongRuns == {3, 374508431}

\* k live hits (trigger_now), then the drum machine started and stopped:
\* toggle_play clears the pool when it stops
PastTriggers(k) ==
  /\ drum_machine' = [drum_machine EXCEPT !.seed = seed_after(@, k), !.voices = << >>]
  /\ last' = [NoLast EXCEPT !.op = "past_triggers"]
  /\ drum_log' = Disturbed
  /\ UNCHANGED <<fixed, sound, saved, bpm, master_clock, sequencer, voices, app>>

\* every track has a hit on step 0
NoiseFiles ==
  { [DefaultSaveFile EXCEPT
       !.drums = [num_steps |-> 8, swing |-> 0,
                  tracks |-> [i \in 1..8 |-> HitTrack(i - 1, 100, 0, FALSE)]]] }

NextNoise ==
  \/ \E k \in LongRuns : last.op = "none" /\ PastTriggers(k)
  \/ \E sf \in NoiseFiles : last.op = "past_triggers" /\ Load(sf)
  \/ MoreHits /\ DmTogglePlay
  \/ \E clock \in HitClocks : MoreHits /\ DmGenerateSample(clock)
  \/ \E t \in {0, 3} : MoreHits /\ DrumEdit("trigger_now", t, 0, FALSE)

SpecNoise == InitHits /\ [][NextNoise]_vars

\* the voices the firing step of the last call spawned; the mixing loop of
\* the call has read the noise of each once, and two states of xorshift that
\* are equal after an update were equal before it
SpawnedVoices ==
  SubSeq(drum_machine.voices, Len(KeptVoices) + 1, Len(drum_machine.voices))

NoiseNeverZero ==
  \A i \in 1..Len(drum_machine.voices) : drum_machine.voices[i].noise # <<0, 0>>

\* C36: every trigger gives its DrumVoice a noise state that is never zero,
\* at creation (seed | 1) and after every xorshift update, and that differs
\* from the initial noise state of every other voice created by a different
\* trigger on the same firing step
C36_NoiseDistinctPerTrigger ==
  /\ NoiseNeverZero
  /\ Fired => \A i, j \in 1..Len(SpawnedVoices) :
                i # j => SpawnedVoices[i].noise # SpawnedVoices[j].noise

----------------------------------------------------------------------------
(* Notes left sounding by the sequencer *)

\* sequencer 1 edited while it plays: steps 0 and 1 written and cleared, the
\* step count cycled, the tempo raised, a file loaded, the audio
\* callback in between; no key is played, so every Voice of the bank was
\* triggered by the sequencer
NextHang ==
  \/ master_clock < MaxCallbacks /\ generate_sample
  \/ SeqTogglePlay(1)
  \/ \E st \in {0, 1} : SeqSetStep(1, st, 60 + 12 * st)
  \/ \E st \in {0, 1} : SeqClearStep(1, st)
  \/ SeqCycleNumSteps(1)
  \/ bpm < InitBpm + 5 /\ BpmUp
  \/ \E sf \in SeqSnapshots : last.op # "load" /\ Load(sf)

SpecHang == Init /\ [][NextHang]_vars

HeldStages == {"Attack", "Decay", "Sustain"}

\* the last operation was a generate_sample in which the tick of bank b was
\* at a step boundary of a playing sequencer
AtBoundary(b) == Rendered /\ IsSome(last.tick[b].result)

\* C37: while a sequencer is playing, every Voice it triggered at a step
\* boundary is released no later than the next step boundary, under any
\* interleaving of generate_sample with set_step, clear_step,
\* cycle_num_steps, bpm changes and load: right after a step boundary the
\* only Voice of the bank in Attack, Decay or Sustain is the one the boundary
\* triggered
C37_ReleasedByNextStep ==
  \A b \in Banks :
    AtBoundary(b) =>
      \A v \in voices[b] :
        v.stage \in HeldStages => Unwrap(last.tick[b].result).note_on = Some(v.note)

----------------------------------------------------------------------------
(* The keyboard: key presses and releases in Keyboard focus, and the       *)
(* handlers that change what a key plays                                    *)

\* base_octave of App::new and the octave octave_up stops at
LowOctave == 4
HighOctave == 8
\* the roots cycled through and the audio callbacks run while keys are played
MaxRoot == 1
KeySamples == 2

KeepsHeldKeys(bank, keys, octave) == [bank |-> bank, pressed_keys |-> keys]
\* App::release_all: a key_release for every pressed key
release_all(bank, keys, octave) ==
  [bank |-> release_keys(bank, keys, octave), pressed_keys |-> {}]

\* a handler that calls release_all and then writes base_octave, the scale,
\* the root or the focus
ReleaseAllThen(name, octave, u) ==
  LET r == release_all(voices[1], pressed_keys, base_octave)
  IN /\ voices' = [voices EXCEPT ![1] = r.bank]
     /\ pressed_keys' = r.pressed_keys
     /\ base_octave' = octave
     /\ ui' = u
     /\ last' = [NoLast EXCEPT !.op = name, !.off = ReleasedKeys]
     /\ drum_log' = Undisturbed
     /\ UNCHANGED <<fixed, sound, saved, bpm, master_clock, sequencer, drum_machine>>

\* a handler whose condition failed: nothing is written
Kept(name) ==
  /\ last' = [NoLast EXCEPT !.op = name]
  /\ drum_log' = Undisturbed
  /\ UNCHANGED <<fixed, engine, sound, saved, app>>

\* Event::FocusLost
ReleaseAll == ReleaseAllThen("release_all", base_octave, ui)

OctaveUp ==
  IF base_octave < 8
  THEN ReleaseAllThen("octave_up", base_octave + 1, Reported(ui))
  ELSE Kept("octave_kept")

OctaveDown ==
  IF base_octave > 0
  THEN ReleaseAllThen("octave_down", base_octave - 1, Reported(ui))
  ELSE Kept("octave_kept")

\* Scale::next walks Scale::ALL and wraps
CycleScale ==
  ReleaseAllThen("cycle_scale", base_octave,
                 Reported([ui EXCEPT !.scale = scale_of((scale_idx(@) + 1) % Len(ScaleAll))]))

\* ScaleQuantizer::cycle_root: the next of the twelve roots
CycleScaleRoot ==
  ReleaseAllThen("cycle_scale_root", base_octave,
                 Reported([ui EXCEPT !.scale_root = (@ + 1) % 12]))

focus_next(m) ==
  CASE m = "Play" -> "SynthSeq" [] m = "SynthSeq" -> "SynthSeq2"
    [] m = "SynthSeq2" -> "Drums" [] m = "Drums" -> "Effects" [] m = "Effects" -> "Play"

ToggleMode ==
  ReleaseAllThen("toggle_mode", base_octave, Reported([ui EXCEPT !.mode = focus_next(@)]))

PianoKeys == {"z", "q"}

\* a file saved with the keyboard at the top octave, a scale chosen and a root
\* past 11
KeyFiles == { [DefaultSaveFile EXCEPT !.base_octave = 12, !.scale = 1, !.scale_root = 13] }

\* the event loop's dispatch: Char keys play only in Keyboard focus, releases
\* are passed on only in Keyboard focus
NextKeys ==
  \/ \E key \in PianoKeys : ui.mode = "Play" /\ KeyPress(key)
  \/ \E key \in PianoKeys : ui.mode = "Play" /\ KeyRelease(key)
  \/ base_octave \in {LowOctave, HighOctave} /\ OctaveUp
  \/ base_octave = LowOctave + 1 /\ OctaveDown
  \/ CycleScale
  \/ ui.scale_root < MaxRoot /\ CycleScaleRoot
  \/ ToggleMode
  \/ ReleaseAll
  \/ \E sf \in KeyFiles : Load(sf)
  \/ LoadFails
  \/ master_clock < KeySamples /\ generate_sample

SpecKeys == Init /\ [][NextKeys]_vars

\* what decides the note a key plays: the note of the key at this octave, the
\* scale and the root
Mapping(key) == <<key_to_note(key, base_octave), ui.scale, ui.scale_root>>

ReleaseAllOps ==
  {"release_all", "octave_up", "octave_down", "cycle_scale", "cycle_scale_root",
   "toggle_mode", "load"}

\* a key stays pressed across the step and plays the same note after it
HeldKeysKeepNote == \A key \in pressed_keys \cap pressed_keys' : Mapping(key)' = Mapping(key)

\* a handler that ran release_all leaves no key pressed and no voice of the
\* keyboard's bank held
AllReleased ==
  last'.op \in ReleaseAllOps =>
    /\ pressed_keys' = {}
    /\ \A v \in voices'[1] : v.stage \notin HeldStages

\* every held voice of the keyboard's bank is the note of a key still pressed
HeldVoicesHaveKeys ==
  \A v \in voices[1] :
    v.stage \in HeldStages =>
      \E key \in pressed_keys : key_to_note(key, base_octave) = Some(v.note)

\* C38: every note-on of a key press is matched by a note-off of the same
\* note: a key that stays pressed keeps its note, since every handler that
\* changes base_octave, the scale, the root or the focus, and load, releases
\* all keys first; after release_all no key is pressed and no voice played
\* from the keyboard is in Attack, Decay or Sustain
C38_KeyNotesReleased ==
  /\ []HeldVoicesHaveKeys
  /\ [][HeldKeysKeepNote /\ AllReleased]_vars

\* the octave was raised while a key was held: its voice, past the attack, is
\* in Release and no key is pressed
C38_Witness ==
  /\ last.op = "octave_up"
  /\ last.off # {}
  /\ \E v \in voices[1] : v.stage = "Release" /\ v.note = 60
  /\ master_clock > 0

----------------------------------------------------------------------------
(* The drum machine played while swing, tempo and step count are changed    *)

\* the tempo is lowered far enough for samples_per_step to change
SlowBpm == InitBpm - 25
\* the audio callbacks run: two step windows at the starting tempo
SwingSamples == 4
\* the swing is raised up to here, in percent
SwingStop == 25

NextSwing ==
  \/ master_clock < SwingSamples /\ generate_sample
  \/ ~drum_machine.playing /\ DrumTogglePlay
  \/ drum_machine.swing < SwingStop /\ DrumSwingUp
  \/ DrumSwingDown
  \/ bpm < InitBpm /\ BpmUp
  \/ bpm > SlowBpm /\ BpmDown
  \/ DrumCycleNumSteps

SpecSwing == Init /\ [][NextSwing]_vars

\* the last generate_sample fired at the start of a step window, and this one
\* fires the same step again one sample later, with the same samples_per_step
Refired ==
  /\ drum_log.phase = 0 /\ drum_log.count = 1
  /\ drum_log'.fired
  /\ drum_log'.phase = 1
  /\ drum_log'.sps = drum_log.sps
  /\ drum_log'.step = drum_log.step

\* C39: while the drum machine plays no step fires twice within one step
\* window, whatever swing, tempo and step-count changes come between the
\* generate_sample calls
C39_NoRefireInWindow == [][~Refired]_vars

----------------------------------------------------------------------------
(* Pausing sequencer 1 from the control thread while the audio thread runs  *)

\* this step is the seq_toggle_play that pauses sequencer 1
Pausing ==
  last'.op = "seq_toggle_play" /\ sequencer[1].playing /\ ~sequencer'[1].playing

\* the note stored at current_step when the pause is made
NoteAtPause ==
  IF InRange(sequencer[1].steps, sequencer[1].current_step)
  THEN At(sequencer[1].steps, sequencer[1].current_step) ELSE None

\* C40: the pause of a melodic sequencer from the control surface sets
\* playing to false and releases the Voice of the note stored at
\* current_step in one step made with the Mutex held before and after it,
\* generate_sample runs only with the Mutex held by the audio thread, and
\* after the pause every Voice of that note in the bank is in Release
C40_PauseReleasesUnderLock ==
  [][/\ Pausing =>
          /\ threads.lock = "control" /\ threads'.lock = "control"
          /\ IsSome(NoteAtPause) =>
               \A v \in voices'[1] : v.note = Unwrap(NoteAtPause) => v.stage = "Release"
     /\ master_clock' # master_clock => threads.lock = "audio" /\ threads'.lock = "audio"]_vars

\* sequencer 1 was paused on a step whose note was sounding: its Voice is in
\* Release, the control thread still holds the Mutex and the audio thread
\* waits for it
C40_Witness ==
  /\ last.op = "seq_toggle_play"
  /\ ~sequencer[1].playing
  /\ \E o \in last.off : o.had /\ \E v \in voices[1] : v.note = o.note /\ v.stage = "Release"
  /\ threads.lock = "control"
  /\ threads.audio = "waiting"

====
